---- MODULE Spec2Model ----
(***************************************************************************)
(* Monte-Carlo process states of the qablet tutorial notebooks:            *)
(*   BSStateMC (single asset, flat vol, guarded advance),                  *)
(*   BS2State  (two correlated assets, guarded advance),                   *)
(*   MyState   (Heston, guarded advance),                                  *)
(*   BSMC      (finmc MCFixedStep variant: reset / unguarded step).        *)
(*                                                                         *)
(* Floats are modelled in fixed point: the real r is the integer r * ONE.  *)
(* NaN is a distinguished value that every arithmetic operator propagates. *)
(* The clock is counted in ticks of half the guard threshold, so that the  *)
(* threshold 1e-10 of the code is EPS = 2 ticks and a positive dt below    *)
(* the threshold (1 tick) exists.                                          *)
(***************************************************************************)
EXTENDS Integers, Sequences, FiniteSets, TLC

\* ------------------------------------------------------------------ bounds
PATHS == 2
\* largest time a driver passes to advance / step
MaxTime == 4
\* number of seeds the datasets range over
MaxSeed == 1
\* cap on the normals one generator hands out (unguarded step can repeat)
MaxDraws == 6
\* calls the second object may lag behind the first
MaxLag == 1
\* cap on the rate queries of an object whose advance keeps failing
MaxCalls == 3
\* number of steps of a fixed size a driver makes in a run of such steps
MaxSteps == 8
\* fixed-point scale
ONE == 8

\* ------------------------------------------------------- program constants
\* the guard threshold 1e-10, in ticks
EPS == 2

\* ------------------------------------------------------------------ state
VARIABLES
    kind,       \* the class of the state objects of this run
    run_data,   \* the dataset both objects are constructed from
    rate0,      \* the behaviour of the curve library on a zero interval
    st,         \* the first state object
    tw,         \* a second object of the same class and dataset
    pending,    \* calls made on st and not yet made on tw
    last,       \* the last call: object, operation, argument, exception
    req,        \* the times requested of st: the last one, and whether
                \* they were non-decreasing so far
    ret         \* what the last call returned

vars == <<kind, run_data, rate0, st, tw, pending, last, req, ret>>

Times == 0..MaxTime
Seeds == 1..MaxSeed
Units == {"SPX", "RUT", "USD"}

\* ------------------------------------------------------ float arithmetic
NaN == 0 - 1000000

\* a configuration value that is not a number (a str, None)
NotNumeric == 0 - 2000000
IsNumeric(a) == a # NotNumeric

\* truncating division of a by a positive b
TDiv(a, b) == IF a >= 0 THEN a \div b ELSE 0 - ((0 - a) \div b)

FAdd(a, b) == IF a = NaN \/ b = NaN THEN NaN ELSE a + b
FSub(a, b) == IF a = NaN \/ b = NaN THEN NaN ELSE a - b
FMul(a, b) == IF a = NaN \/ b = NaN THEN NaN ELSE TDiv(a * b, ONE)
\* a / 2.0
FHalf(a) == IF a = NaN THEN NaN ELSE TDiv(a, 2)

ISqrt(n) == CHOOSE r \in 0..(n + 1) : r * r <= n /\ (r + 1) * (r + 1) > n

\* math.sqrt on a non-negative argument (a negative one raises ValueError,
\* which the callers model)
PySqrt(a) == ISqrt(a * ONE)

\* numpy.sqrt: NaN for a negative argument
NpSqrt(a) == IF a = NaN \/ a < 0 THEN NaN ELSE ISqrt(a * ONE)

\* numpy.maximum(c, a) for a scalar c
NpMaximum(c, a) == IF a = NaN THEN NaN ELSE IF a > c THEN a ELSE c

\* exp for a >= 0, third-order series
ExpPos(a) == ONE + a + TDiv(a * a, 2 * ONE) + TDiv(a * a * a, 6 * ONE * ONE)

\* numpy.exp
NpExp(a) == IF a = NaN THEN NaN
            ELSE IF a >= 0 THEN ExpPos(a)
            ELSE (ONE * ONE) \div ExpPos(0 - a)

\* elementwise vector operations
VAdd(v, w) == [i \in 1..Len(v) |-> FAdd(v[i], w[i])]
VSub(v, w) == [i \in 1..Len(v) |-> FSub(v[i], w[i])]
VMul(v, w) == [i \in 1..Len(v) |-> FMul(v[i], w[i])]
VAddS(v, s) == [i \in 1..Len(v) |-> FAdd(v[i], s)]
VMulS(v, s) == [i \in 1..Len(v) |-> FMul(v[i], s)]
\* s - v
SSubV(s, v) == [i \in 1..Len(v) |-> FSub(s, v[i])]
VHalf(v) == [i \in 1..Len(v) |-> FHalf(v[i])]
VSqrt(v) == [i \in 1..Len(v) |-> NpSqrt(v[i])]
VMaximum(c, v) == [i \in 1..Len(v) |-> NpMaximum(c, v[i])]
VExp(v) == [i \in 1..Len(v) |-> NpExp(v[i])]

NpZeros(n) == [i \in 1..n |-> 0]
NpFull(n, a) == [i \in 1..n |-> a]

HasNaN(v) == \E i \in 1..Len(v) : v[i] = NaN

\* --------------------------------------------------------- the generator
\* Generator(SFC64(seed)): the stream is a function of the seed and of the
\* number of variates handed out so far
NewRng(seed) == [seed |-> seed, pos |-> 0]

\* the k-th standard normal of the stream of a seed
Z(seed, k) == (((seed * 7 + k * 3 + k * k) % 5) - 2) * (ONE \div 2)

\* variant: every object draws from one process-wide stream, whose position
\* is the number of variates handed out to all objects
Mut_StandardNormal_Global(rng, n) ==
    [i \in 1..n |-> Z(rng.seed, st.rng.pos + tw.rng.pos + i)]

\* rng.standard_normal(n): the values drawn
StandardNormal(rng, n) == [i \in 1..n |-> Z(rng.seed, rng.pos + i)]

\* rng.standard_normal(n): the generator afterwards
Drawn(rng, n) == [rng EXCEPT !.pos = @ + n]

\* ---------------------------------------------------------------- curves
\* Forwards(data): the forward curve of an asset, spot * exp(G(t)) with a
\* rate r1 up to the knot and r2 after it; calls counts the rate queries
Knot == 2

NewForwards(data) == [spot |-> data.spot, r1 |-> data.r1, r2 |-> data.r2,
                      calls |-> 0]

LogFwd(f, t) == f.r1 * (IF t < Knot THEN t ELSE Knot)
                + f.r2 * (IF t > Knot THEN t - Knot ELSE 0)

\* Forwards.forward(0)
Forward0(f) == f.spot

\* Forwards.rate(new_time, prev_time) for new_time # prev_time
Rate(f, new_time, prev_time) ==
    IF new_time > prev_time
    THEN TDiv(LogFwd(f, new_time) - LogFwd(f, prev_time), new_time - prev_time)
    ELSE TDiv(LogFwd(f, prev_time) - LogFwd(f, new_time), prev_time - new_time)

Queried(f) == [f EXCEPT !.calls = @ + 1]

\* Discounter.discount(t) on a flat zero rate
Discount(d, t) == NpExp(0 - d.r1 * t)


\* dt as a float
TimeF(dt) == dt * ONE

\* ------------------------------------------------------- returned values
None == [tag |-> "None", val |-> <<>>]
Array(v) == [tag |-> "array", val |-> v]
Float(a) == [tag |-> "float", val |-> <<a>>]

\* the outcome of a call: the object afterwards and the exception raised
Done(o) == [obj |-> o, exc |-> "none"]
Raised(o, e) == [obj |-> o, exc |-> e]

\* ------------------------------------------------------------- BSStateMC
BSStateMC_init(dataset) ==
    LET asset == dataset.BS.ASSET
        asset_fwd == NewForwards(dataset.ASSETS[asset])
    IN  [n |-> dataset.MC.PATHS,
         asset |-> asset,
         asset_fwd |-> asset_fwd,
         spot |-> Forward0(asset_fwd),
         vol |-> dataset.BS.VOL,
         rng |-> NewRng(dataset.MC.SEED),
         x_vec |-> NpZeros(dataset.MC.PATHS),
         cur_time |-> 0]

\* variant: the variates are drawn before the guard is tested
Mut_BSStateMC_advance_DrawFirst(self, new_time) ==
    LET dt == new_time - self.cur_time
        fwd_rate == Rate(self.asset_fwd, new_time, self.cur_time)
        dz_vec == VMulS(VMulS(StandardNormal(self.rng, self.n),
                              PySqrt(TimeF(dt))), self.vol)
        x_drift == VAddS(self.x_vec,
                         FMul(FSub(fwd_rate,
                                   FHalf(FMul(self.vol, self.vol))),
                              TimeF(dt)))
    IN  IF dt < EPS
        THEN [self EXCEPT !.rng = Drawn(@, self.n)]
        ELSE [self EXCEPT !.asset_fwd = Queried(@),
                          !.rng = Drawn(@, self.n),
                          !.x_vec = VAdd(x_drift, dz_vec),
                          !.cur_time = new_time]

\* variant: an interval longer than the threshold is covered in two Euler
\* steps, the first of them of the length of the threshold, each with its
\* own rate query and batch of variates
Mut_BSStateMC_advance_SubSteps(self, new_time) ==
    LET Euler(s, t) ==
            LET dt == t - s.cur_time
                fwd_rate == Rate(s.asset_fwd, t, s.cur_time)
                dz_vec == VMulS(VMulS(StandardNormal(s.rng, s.n),
                                      PySqrt(TimeF(dt))), s.vol)
                x_drift == VAddS(s.x_vec,
                                 FMul(FSub(fwd_rate,
                                           FHalf(FMul(s.vol, s.vol))),
                                      TimeF(dt)))
            IN  [s EXCEPT !.asset_fwd = Queried(@),
                          !.rng = Drawn(@, s.n),
                          !.x_vec = VAdd(x_drift, dz_vec),
                          !.cur_time = t]
        dt == new_time - self.cur_time
    IN  IF dt < EPS
        THEN self
        ELSE IF dt > EPS
        THEN Euler(Euler(self, self.cur_time + EPS), new_time)
        ELSE Euler(self, new_time)

\* variant: the guard also returns when dt equals the threshold
Mut_BSStateMC_advance_InclusiveGuard(self, new_time) ==
    LET dt == new_time - self.cur_time
        fwd_rate == Rate(self.asset_fwd, new_time, self.cur_time)
        dz_vec == VMulS(VMulS(StandardNormal(self.rng, self.n),
                              PySqrt(TimeF(dt))), self.vol)
        x_drift == VAddS(self.x_vec,
                         FMul(FSub(fwd_rate,
                                   FHalf(FMul(self.vol, self.vol))),
                              TimeF(dt)))
    IN  IF dt <= EPS
        THEN self
        ELSE [self EXCEPT !.asset_fwd = Queried(@),
                          !.rng = Drawn(@, self.n),
                          !.x_vec = VAdd(x_drift, dz_vec),
                          !.cur_time = new_time]

\* variant: the drift of each step is taken over [0, new_time]
Mut_BSStateMC_advance_DriftFromZero(self, new_time) ==
    LET dt == new_time - self.cur_time
        fwd_rate == Rate(self.asset_fwd, new_time, self.cur_time)
        dz_vec == VMulS(VMulS(StandardNormal(self.rng, self.n),
                              PySqrt(TimeF(dt))), self.vol)
        x_drift == VAddS(self.x_vec,
                         FMul(FSub(fwd_rate,
                                   FHalf(FMul(self.vol, self.vol))),
                              TimeF(new_time)))
    IN  IF dt < EPS
        THEN self
        ELSE [self EXCEPT !.asset_fwd = Queried(@),
                          !.rng = Drawn(@, self.n),
                          !.x_vec = VAdd(x_drift, dz_vec),
                          !.cur_time = new_time]

BSStateMC_advance(self, new_time) ==
    LET dt == new_time - self.cur_time
        fwd_rate == Rate(self.asset_fwd, new_time, self.cur_time)
        dz_vec == VMulS(VMulS(StandardNormal(self.rng, self.n),
                              PySqrt(TimeF(dt))), self.vol)
        x_drift == VAddS(self.x_vec,
                         FMul(FSub(fwd_rate,
                                   FHalf(FMul(self.vol, self.vol))),
                              TimeF(dt)))
    IN  IF dt < EPS
        THEN self
        ELSE [self EXCEPT !.asset_fwd = Queried(@),
                          !.rng = Drawn(@, self.n),
                          !.x_vec = VAdd(x_drift, dz_vec),
                          !.cur_time = new_time]

\* variant: the internal log-price vector itself is returned, not a new
\* array
Mut_BSStateMC_get_value_View(self, unit) ==
    IF unit = self.asset
    THEN [tag |-> "view", val |-> <<>>, of |-> "x_vec"]
    ELSE None

BSStateMC_get_value(self, unit) ==
    IF unit = self.asset
    THEN Array(VMulS(VExp(self.x_vec), self.spot))
    ELSE None

\* --------------------------------------------------------------- BS2State
BS2State_init(dataset) ==
    LET modeldata == dataset.BS2
        asset_fwd1 == NewForwards(dataset.ASSETS[modeldata.ASSET1])
        asset_fwd2 == NewForwards(dataset.ASSETS[modeldata.ASSET2])
    IN  [asset1 |-> modeldata.ASSET1,
         asset_fwd1 |-> asset_fwd1,
         spot1 |-> Forward0(asset_fwd1),
         vol1 |-> modeldata.VOL1,
         asset2 |-> modeldata.ASSET2,
         asset_fwd2 |-> asset_fwd2,
         spot2 |-> Forward0(asset_fwd2),
         vol2 |-> modeldata.VOL2,
         corr |-> modeldata.CORR,
         corr_sup |-> PySqrt(ONE - FMul(modeldata.CORR, modeldata.CORR)),
         n |-> dataset.MC.PATHS,
         rng |-> NewRng(dataset.MC.SEED),
         x1_vec |-> NpZeros(dataset.MC.PATHS),
         x2_vec |-> NpZeros(dataset.MC.PATHS),
         cur_time |-> 0]

\* variant: the clock is assigned before the guard returns
Mut_BS2State_advance_ClockFirst(self, new_time) ==
    LET dt == new_time - self.cur_time
        drift1 == Rate(self.asset_fwd1, new_time, self.cur_time)
        drift2 == Rate(self.asset_fwd2, new_time, self.cur_time)
        dz1_vec == StandardNormal(self.rng, self.n)
        dz2_vec == VAdd(VMulS(StandardNormal(Drawn(self.rng, self.n), self.n),
                              self.corr_sup),
                        VMulS(dz1_vec, self.corr))
        x1_drift == VAddS(self.x1_vec,
                          FMul(FSub(drift1, FHalf(FMul(self.vol1, self.vol1))),
                               TimeF(dt)))
        x2_drift == VAddS(self.x2_vec,
                          FMul(FSub(drift2, FHalf(FMul(self.vol2, self.vol2))),
                               TimeF(dt)))
    IN  IF dt < EPS
        THEN [self EXCEPT !.cur_time = new_time]
        ELSE [self EXCEPT
                !.asset_fwd1 = Queried(@),
                !.asset_fwd2 = Queried(@),
                !.rng = Drawn(Drawn(@, self.n), self.n),
                !.x1_vec = VAdd(x1_drift,
                                VMulS(VMulS(dz1_vec, PySqrt(TimeF(dt))),
                                      self.vol1)),
                !.x2_vec = VAdd(x2_drift,
                                VMulS(VMulS(dz2_vec, PySqrt(TimeF(dt))),
                                      self.vol2)),
                !.cur_time = new_time]

\* variant: the weights of the two variates of asset 2 are exchanged
Mut_BS2State_advance_SwapWeights(self, new_time) ==
    LET dt == new_time - self.cur_time
        drift1 == Rate(self.asset_fwd1, new_time, self.cur_time)
        drift2 == Rate(self.asset_fwd2, new_time, self.cur_time)
        dz1_vec == StandardNormal(self.rng, self.n)
        dz2_vec == VAdd(VMulS(StandardNormal(Drawn(self.rng, self.n), self.n),
                              self.corr),
                        VMulS(dz1_vec, self.corr_sup))
        x1_drift == VAddS(self.x1_vec,
                          FMul(FSub(drift1, FHalf(FMul(self.vol1, self.vol1))),
                               TimeF(dt)))
        x2_drift == VAddS(self.x2_vec,
                          FMul(FSub(drift2, FHalf(FMul(self.vol2, self.vol2))),
                               TimeF(dt)))
    IN  IF dt < EPS
        THEN self
        ELSE [self EXCEPT
                !.asset_fwd1 = Queried(@),
                !.asset_fwd2 = Queried(@),
                !.rng = Drawn(Drawn(@, self.n), self.n),
                !.x1_vec = VAdd(x1_drift,
                                VMulS(VMulS(dz1_vec, PySqrt(TimeF(dt))),
                                      self.vol1)),
                !.x2_vec = VAdd(x2_drift,
                                VMulS(VMulS(dz2_vec, PySqrt(TimeF(dt))),
                                      self.vol2)),
                !.cur_time = new_time]

\* variant: the second asset is advanced over [0, new_time]
Mut_BS2State_advance_Asset2FromZero(self, new_time) ==
    LET dt == new_time - self.cur_time
        drift1 == Rate(self.asset_fwd1, new_time, self.cur_time)
        drift2 == Rate(self.asset_fwd2, new_time, 0)
        dz1_vec == StandardNormal(self.rng, self.n)
        dz2_vec == VAdd(VMulS(StandardNormal(Drawn(self.rng, self.n), self.n),
                              self.corr_sup),
                        VMulS(dz1_vec, self.corr))
        x1_drift == VAddS(self.x1_vec,
                          FMul(FSub(drift1, FHalf(FMul(self.vol1, self.vol1))),
                               TimeF(dt)))
        x2_drift == VAddS(self.x2_vec,
                          FMul(FSub(drift2, FHalf(FMul(self.vol2, self.vol2))),
                               TimeF(new_time)))
    IN  IF dt < EPS
        THEN self
        ELSE [self EXCEPT
                !.asset_fwd1 = Queried(@),
                !.asset_fwd2 = Queried(@),
                !.rng = Drawn(Drawn(@, self.n), self.n),
                !.x1_vec = VAdd(x1_drift,
                                VMulS(VMulS(dz1_vec, PySqrt(TimeF(dt))),
                                      self.vol1)),
                !.x2_vec = VAdd(x2_drift,
                                VMulS(VMulS(dz2_vec, PySqrt(TimeF(new_time))),
                                      self.vol2)),
                !.cur_time = new_time]

\* variant: the variates of asset 2 are drawn before those of asset 1
Mut_BS2State_advance_DrawOrder(self, new_time) ==
    LET dt == new_time - self.cur_time
        drift1 == Rate(self.asset_fwd1, new_time, self.cur_time)
        drift2 == Rate(self.asset_fwd2, new_time, self.cur_time)
        dz1_vec == StandardNormal(Drawn(self.rng, self.n), self.n)
        dz2_vec == VAdd(VMulS(StandardNormal(self.rng, self.n),
                              self.corr_sup),
                        VMulS(dz1_vec, self.corr))
        x1_drift == VAddS(self.x1_vec,
                          FMul(FSub(drift1, FHalf(FMul(self.vol1, self.vol1))),
                               TimeF(dt)))
        x2_drift == VAddS(self.x2_vec,
                          FMul(FSub(drift2, FHalf(FMul(self.vol2, self.vol2))),
                               TimeF(dt)))
    IN  IF dt < EPS
        THEN self
        ELSE [self EXCEPT
                !.asset_fwd1 = Queried(@),
                !.asset_fwd2 = Queried(@),
                !.rng = Drawn(Drawn(@, self.n), self.n),
                !.x1_vec = VAdd(x1_drift,
                                VMulS(VMulS(dz1_vec, PySqrt(TimeF(dt))),
                                      self.vol1)),
                !.x2_vec = VAdd(x2_drift,
                                VMulS(VMulS(dz2_vec, PySqrt(TimeF(dt))),
                                      self.vol2)),
                !.cur_time = new_time]

\* variant: z2 is not drawn when its weight is zero
Mut_BS2State_advance_SkipZeroWeight(self, new_time) ==
    LET dt == new_time - self.cur_time
        drift1 == Rate(self.asset_fwd1, new_time, self.cur_time)
        drift2 == Rate(self.asset_fwd2, new_time, self.cur_time)
        dz1_vec == StandardNormal(self.rng, self.n)
        dz2_vec == IF self.corr_sup = 0
                   THEN VMulS(dz1_vec, self.corr)
                   ELSE VAdd(VMulS(StandardNormal(Drawn(self.rng, self.n),
                                                  self.n),
                                   self.corr_sup),
                             VMulS(dz1_vec, self.corr))
        x1_drift == VAddS(self.x1_vec,
                          FMul(FSub(drift1, FHalf(FMul(self.vol1, self.vol1))),
                               TimeF(dt)))
        x2_drift == VAddS(self.x2_vec,
                          FMul(FSub(drift2, FHalf(FMul(self.vol2, self.vol2))),
                               TimeF(dt)))
    IN  IF dt < EPS
        THEN self
        ELSE [self EXCEPT
                !.asset_fwd1 = Queried(@),
                !.asset_fwd2 = Queried(@),
                !.rng = IF self.corr_sup = 0 THEN Drawn(@, self.n)
                        ELSE Drawn(Drawn(@, self.n), self.n),
                !.x1_vec = VAdd(x1_drift,
                                VMulS(VMulS(dz1_vec, PySqrt(TimeF(dt))),
                                      self.vol1)),
                !.x2_vec = VAdd(x2_drift,
                                VMulS(VMulS(dz2_vec, PySqrt(TimeF(dt))),
                                      self.vol2)),
                !.cur_time = new_time]

\* variant: the correlation is applied symmetrically, asset 1 taking
\* corr_sup * z1 + corr * z2
Mut_BS2State_advance_SymmetricShocks(self, new_time) ==
    LET dt == new_time - self.cur_time
        drift1 == Rate(self.asset_fwd1, new_time, self.cur_time)
        drift2 == Rate(self.asset_fwd2, new_time, self.cur_time)
        z1 == StandardNormal(self.rng, self.n)
        z2 == StandardNormal(Drawn(self.rng, self.n), self.n)
        dz1_vec == VAdd(VMulS(z1, self.corr_sup), VMulS(z2, self.corr))
        dz2_vec == VAdd(VMulS(z2, self.corr_sup), VMulS(z1, self.corr))
        x1_drift == VAddS(self.x1_vec,
                          FMul(FSub(drift1, FHalf(FMul(self.vol1, self.vol1))),
                               TimeF(dt)))
        x2_drift == VAddS(self.x2_vec,
                          FMul(FSub(drift2, FHalf(FMul(self.vol2, self.vol2))),
                               TimeF(dt)))
    IN  IF dt < EPS
        THEN self
        ELSE [self EXCEPT
                !.asset_fwd1 = Queried(@),
                !.asset_fwd2 = Queried(@),
                !.rng = Drawn(Drawn(@, self.n), self.n),
                !.x1_vec = VAdd(x1_drift,
                                VMulS(VMulS(dz1_vec, PySqrt(TimeF(dt))),
                                      self.vol1)),
                !.x2_vec = VAdd(x2_drift,
                                VMulS(VMulS(dz2_vec, PySqrt(TimeF(dt))),
                                      self.vol2)),
                !.cur_time = new_time]

BS2State_advance(self, new_time) ==
    LET dt == new_time - self.cur_time
        drift1 == Rate(self.asset_fwd1, new_time, self.cur_time)
        drift2 == Rate(self.asset_fwd2, new_time, self.cur_time)
        dz1_vec == StandardNormal(self.rng, self.n)
        dz2_vec == VAdd(VMulS(StandardNormal(Drawn(self.rng, self.n), self.n),
                              self.corr_sup),
                        VMulS(dz1_vec, self.corr))
        x1_drift == VAddS(self.x1_vec,
                          FMul(FSub(drift1, FHalf(FMul(self.vol1, self.vol1))),
                               TimeF(dt)))
        x2_drift == VAddS(self.x2_vec,
                          FMul(FSub(drift2, FHalf(FMul(self.vol2, self.vol2))),
                               TimeF(dt)))
    IN  IF dt < EPS
        THEN self
        ELSE [self EXCEPT
                !.asset_fwd1 = Queried(@),
                !.asset_fwd2 = Queried(@),
                !.rng = Drawn(Drawn(@, self.n), self.n),
                !.x1_vec = VAdd(x1_drift,
                                VMulS(VMulS(dz1_vec, PySqrt(TimeF(dt))),
                                      self.vol1)),
                !.x2_vec = VAdd(x2_drift,
                                VMulS(VMulS(dz2_vec, PySqrt(TimeF(dt))),
                                      self.vol2)),
                !.cur_time = new_time]

\* variant: the last branch returns asset 2 for every other unit
Mut_BS2State_get_value_NoSentinel(self, unit) ==
    IF unit = self.asset1
    THEN Array(VMulS(VExp(self.x1_vec), self.spot1))
    ELSE Array(VMulS(VExp(self.x2_vec), self.spot2))

\* variant: asset 2 is valued from the vector of asset 1
Mut_BS2State_get_value_Crossed(self, unit) ==
    IF unit = self.asset1
    THEN Array(VMulS(VExp(self.x1_vec), self.spot1))
    ELSE IF unit = self.asset2
    THEN Array(VMulS(VExp(self.x1_vec), self.spot2))
    ELSE None

BS2State_get_value(self, unit) ==
    IF unit = self.asset1
    THEN Array(VMulS(VExp(self.x1_vec), self.spot1))
    ELSE IF unit = self.asset2
    THEN Array(VMulS(VExp(self.x2_vec), self.spot2))
    ELSE None

\* ---------------------------------------------------------------- MyState
MyState_init(dataset) ==
    LET asset == dataset.HESTON.ASSET
        asset_fwd == NewForwards(dataset.ASSETS[asset])
    IN  [n |-> dataset.MC.PATHS,
         rng |-> NewRng(dataset.MC.SEED),
         asset |-> asset,
         asset_fwd |-> asset_fwd,
         spot |-> Forward0(asset_fwd),
         heston_params |-> <<dataset.HESTON.LONG_VAR,
                             dataset.HESTON.VOL_OF_VAR,
                             dataset.HESTON.MEANREV,
                             dataset.HESTON.CORRELATION>>,
         x_vec |-> NpZeros(dataset.MC.PATHS),
         v_vec |-> NpFull(dataset.MC.PATHS, dataset.HESTON.INITIAL_VAR),
         cur_time |-> 0]

\* variant: the batch is taken from one process-wide stream (the legacy
\* numpy.random module functions), whose position is the number of variates
\* handed out to all objects
Mut_MultivariateNormal_Global(rng, dt, corr, n) ==
    LET z == [i \in 1..(2 * n) |->
                 Z(rng.seed, st.rng.pos + tw.rng.pos + i)]
        sq == PySqrt(TimeF(dt))
        sup == PySqrt(ONE - FMul(corr, corr))
    IN  << [i \in 1..n |-> FMul(z[2 * i - 1], sq)],
           [i \in 1..n |-> FMul(FAdd(FMul(corr, z[2 * i - 1]),
                                     FMul(sup, z[2 * i])), sq)] >>

\* rng.multivariate_normal([0, 0], [[dt, corr*dt], [corr*dt, dt]], n)
\* transposed: path i takes the variates 2i-1 and 2i of the batch, combined
\* through a factor of the covariance matrix
MultivariateNormal(rng, dt, corr, n) ==
    LET z == StandardNormal(rng, 2 * n)
        sq == PySqrt(TimeF(dt))
        sup == PySqrt(ONE - FMul(corr, corr))
    IN  << [i \in 1..n |-> FMul(z[2 * i - 1], sq)],
           [i \in 1..n |-> FMul(FAdd(FMul(corr, z[2 * i - 1]),
                                     FMul(sup, z[2 * i])), sq)] >>

\* variant: the reflection scheme, the square root of the absolute value
Mut_VolVec_Reflection(v_vec) ==
    VSqrt([i \in 1..Len(v_vec) |->
              IF v_vec[i] # NaN /\ v_vec[i] < 0 THEN 0 - v_vec[i]
              ELSE v_vec[i]])

\* variant: the square root is taken of the raw variance
Mut_VolVec_NoFloor(v_vec) == VSqrt(v_vec)

\* the floored volatility of line 86
VolVec(v_vec) == VSqrt(VMaximum(0, v_vec))

\* variant: the guard tests dt <= 0 instead of the threshold
Mut_MyState_advance_ZeroGuard(self, new_time) ==
    LET dt == new_time - self.cur_time
        theta == self.heston_params[1]
        vvol == self.heston_params[2]
        meanrev == self.heston_params[3]
        corr == self.heston_params[4]
        fwd_rate == Rate(self.asset_fwd, new_time, self.cur_time)
        dz_pair == MultivariateNormal(self.rng, dt, corr, self.n)
        vol_vec == VolVec(self.v_vec)
        x_drift == VAdd(self.x_vec,
                        VMulS(SSubV(fwd_rate, VHalf(VMul(vol_vec, vol_vec))),
                              TimeF(dt)))
        v_drift == VAdd(self.v_vec,
                        VMulS(VMulS(SSubV(theta, self.v_vec), meanrev),
                              TimeF(dt)))
    IN  IF dt <= 0
        THEN self
        ELSE [self EXCEPT
                !.asset_fwd = Queried(@),
                !.rng = Drawn(@, 2 * self.n),
                !.x_vec = VAdd(x_drift, VMul(vol_vec, dz_pair[1])),
                !.v_vec = VAdd(v_drift,
                               VMul(VMulS(vol_vec, vvol), dz_pair[2])),
                !.cur_time = new_time]

\* variant: the mean reversion starts from the floored variance
Mut_MyState_advance_FloorDrift(self, new_time) ==
    LET dt == new_time - self.cur_time
        theta == self.heston_params[1]
        vvol == self.heston_params[2]
        meanrev == self.heston_params[3]
        corr == self.heston_params[4]
        fwd_rate == Rate(self.asset_fwd, new_time, self.cur_time)
        dz_pair == MultivariateNormal(self.rng, dt, corr, self.n)
        vol_vec == VolVec(self.v_vec)
        v_floor == VMaximum(0, self.v_vec)
        x_drift == VAdd(self.x_vec,
                        VMulS(SSubV(fwd_rate, VHalf(VMul(vol_vec, vol_vec))),
                              TimeF(dt)))
        v_drift == VAdd(v_floor,
                        VMulS(VMulS(SSubV(theta, v_floor), meanrev),
                              TimeF(dt)))
    IN  IF dt < EPS
        THEN self
        ELSE [self EXCEPT
                !.asset_fwd = Queried(@),
                !.rng = Drawn(@, 2 * self.n),
                !.x_vec = VAdd(x_drift, VMul(vol_vec, dz_pair[1])),
                !.v_vec = VAdd(v_drift,
                               VMul(VMulS(vol_vec, vvol), dz_pair[2])),
                !.cur_time = new_time]

\* variant: the clock is not assigned after the update
Mut_MyState_advance_ClockNotAssigned(self, new_time) ==
    LET dt == new_time - self.cur_time
        theta == self.heston_params[1]
        vvol == self.heston_params[2]
        meanrev == self.heston_params[3]
        corr == self.heston_params[4]
        fwd_rate == Rate(self.asset_fwd, new_time, self.cur_time)
        dz_pair == MultivariateNormal(self.rng, dt, corr, self.n)
        vol_vec == VolVec(self.v_vec)
        x_drift == VAdd(self.x_vec,
                        VMulS(SSubV(fwd_rate, VHalf(VMul(vol_vec, vol_vec))),
                              TimeF(dt)))
        v_drift == VAdd(self.v_vec,
                        VMulS(VMulS(SSubV(theta, self.v_vec), meanrev),
                              TimeF(dt)))
    IN  IF dt < EPS
        THEN self
        ELSE [self EXCEPT
                !.asset_fwd = Queried(@),
                !.rng = Drawn(@, 2 * self.n),
                !.x_vec = VAdd(x_drift, VMul(vol_vec, dz_pair[1])),
                !.v_vec = VAdd(v_drift,
                               VMul(VMulS(vol_vec, vvol), dz_pair[2]))]

\* variant: the volatility of the variance diffusion is taken again after
\* the mean-reversion addition
Mut_MyState_advance_VolAfterDrift(self, new_time) ==
    LET dt == new_time - self.cur_time
        theta == self.heston_params[1]
        vvol == self.heston_params[2]
        meanrev == self.heston_params[3]
        corr == self.heston_params[4]
        fwd_rate == Rate(self.asset_fwd, new_time, self.cur_time)
        dz_pair == MultivariateNormal(self.rng, dt, corr, self.n)
        vol_vec == VolVec(self.v_vec)
        x_drift == VAdd(self.x_vec,
                        VMulS(SSubV(fwd_rate, VHalf(VMul(vol_vec, vol_vec))),
                              TimeF(dt)))
        v_drift == VAdd(self.v_vec,
                        VMulS(VMulS(SSubV(theta, self.v_vec), meanrev),
                              TimeF(dt)))
    IN  IF dt < EPS
        THEN self
        ELSE [self EXCEPT
                !.asset_fwd = Queried(@),
                !.rng = Drawn(@, 2 * self.n),
                !.x_vec = VAdd(x_drift, VMul(vol_vec, dz_pair[1])),
                !.v_vec = VAdd(v_drift,
                               VMul(VMulS(VolVec(v_drift), vvol),
                                    dz_pair[2])),
                !.cur_time = new_time]

\* variant: the drift of the log-price takes the stored variance instead
\* of the square of the floored volatility
Mut_MyState_advance_RawVarianceDrift(self, new_time) ==
    LET dt == new_time - self.cur_time
        theta == self.heston_params[1]
        vvol == self.heston_params[2]
        meanrev == self.heston_params[3]
        corr == self.heston_params[4]
        fwd_rate == Rate(self.asset_fwd, new_time, self.cur_time)
        dz_pair == MultivariateNormal(self.rng, dt, corr, self.n)
        vol_vec == VolVec(self.v_vec)
        x_drift == VAdd(self.x_vec,
                        VMulS(SSubV(fwd_rate, VHalf(self.v_vec)),
                              TimeF(dt)))
        v_drift == VAdd(self.v_vec,
                        VMulS(VMulS(SSubV(theta, self.v_vec), meanrev),
                              TimeF(dt)))
    IN  IF dt < EPS
        THEN self
        ELSE [self EXCEPT
                !.asset_fwd = Queried(@),
                !.rng = Drawn(@, 2 * self.n),
                !.x_vec = VAdd(x_drift, VMul(vol_vec, dz_pair[1])),
                !.v_vec = VAdd(v_drift,
                               VMul(VMulS(vol_vec, vvol), dz_pair[2])),
                !.cur_time = new_time]

MyState_advance(self, new_time) ==
    LET dt == new_time - self.cur_time
        theta == self.heston_params[1]
        vvol == self.heston_params[2]
        meanrev == self.heston_params[3]
        corr == self.heston_params[4]
        fwd_rate == Rate(self.asset_fwd, new_time, self.cur_time)
        dz_pair == MultivariateNormal(self.rng, dt, corr, self.n)
        vol_vec == VolVec(self.v_vec)
        x_drift == VAdd(self.x_vec,
                        VMulS(SSubV(fwd_rate, VHalf(VMul(vol_vec, vol_vec))),
                              TimeF(dt)))
        v_drift == VAdd(self.v_vec,
                        VMulS(VMulS(SSubV(theta, self.v_vec), meanrev),
                              TimeF(dt)))
    IN  IF dt < EPS
        THEN self
        ELSE [self EXCEPT
                !.asset_fwd = Queried(@),
                !.rng = Drawn(@, 2 * self.n),
                !.x_vec = VAdd(x_drift, VMul(vol_vec, dz_pair[1])),
                !.v_vec = VAdd(v_drift,
                               VMul(VMulS(vol_vec, vvol), dz_pair[2])),
                !.cur_time = new_time]

MyState_get_value(self, unit) ==
    IF unit = self.asset
    THEN Array(VMulS(VExp(self.x_vec), self.spot))
    ELSE None

\* ------------------------------------------------------------------- BSMC
\* variant: reset keeps the generator of the object when it has one
Mut_BSMC_reset_KeepGenerator(self) ==
    LET asset == self.dataset.BS.ASSET
        asset_fwd == NewForwards(self.dataset.ASSETS[asset])
    IN  [dataset |-> self.dataset,
         n |-> self.dataset.MC.PATHS,
         timestep |-> self.dataset.MC.TIMESTEP,
         asset |-> asset,
         asset_fwd |-> asset_fwd,
         spot |-> Forward0(asset_fwd),
         vol |-> self.dataset.BS.VOL,
         discounter |-> NewForwards(self.dataset.ASSETS[self.dataset.BASE]),
         rng |-> IF "rng" \in DOMAIN self THEN self.rng
                 ELSE NewRng(self.dataset.MC.SEED),
         x_vec |-> NpZeros(self.dataset.MC.PATHS),
         cur_time |-> 0]

\* reset() assigns every field again; the dataset is kept by the base class
BSMC_reset(self) ==
    LET asset == self.dataset.BS.ASSET
        asset_fwd == NewForwards(self.dataset.ASSETS[asset])
    IN  [dataset |-> self.dataset,
         n |-> self.dataset.MC.PATHS,
         timestep |-> self.dataset.MC.TIMESTEP,
         asset |-> asset,
         asset_fwd |-> asset_fwd,
         spot |-> Forward0(asset_fwd),
         vol |-> self.dataset.BS.VOL,
         discounter |-> NewForwards(self.dataset.ASSETS[self.dataset.BASE]),
         rng |-> NewRng(self.dataset.MC.SEED),
         x_vec |-> NpZeros(self.dataset.MC.PATHS),
         cur_time |-> 0]

\* BSMC(dataset) followed by reset(), as the notebook does
BSMC_init(dataset) == BSMC_reset([dataset |-> dataset])

\* variant: numpy.sqrt instead of math.sqrt, so a negative dt yields nan
\* instead of raising
Mut_BSMC_step_NpSqrt(self, new_time, zero_dt) ==
    LET dt == new_time - self.cur_time
        fwd_rate == IF dt = 0 THEN NaN
                    ELSE Rate(self.asset_fwd, new_time, self.cur_time)
        queried == [self EXCEPT !.asset_fwd = Queried(@)]
        drawn == [queried EXCEPT !.rng = Drawn(@, self.n)]
        dz_vec == VMulS(VMulS(StandardNormal(self.rng, self.n),
                              NpSqrt(TimeF(dt))), self.vol)
        incr == FMul(FSub(fwd_rate, FHalf(FMul(self.vol, self.vol))),
                     TimeF(dt))
    IN  IF dt = 0 /\ zero_dt = "ZeroDivisionError"
        THEN Raised(queried, "ZeroDivisionError")
        ELSE Done([drawn EXCEPT
                     !.x_vec = VAdd(@, [i \in 1..self.n |->
                                          FAdd(incr, dz_vec[i])]),
                     !.cur_time = new_time])

\* variant: the variates are scaled by dt instead of sqrt(dt)
Mut_BSMC_step_LinearDiffusion(self, new_time, zero_dt) ==
    LET dt == new_time - self.cur_time
        fwd_rate == IF dt = 0 THEN NaN
                    ELSE Rate(self.asset_fwd, new_time, self.cur_time)
        queried == [self EXCEPT !.asset_fwd = Queried(@)]
        drawn == [queried EXCEPT !.rng = Drawn(@, self.n)]
        dz_vec == VMulS(VMulS(StandardNormal(self.rng, self.n),
                              TimeF(dt)), self.vol)
        incr == FMul(FSub(fwd_rate, FHalf(FMul(self.vol, self.vol))),
                     TimeF(dt))
    IN  IF dt = 0 /\ zero_dt = "ZeroDivisionError"
        THEN Raised(queried, "ZeroDivisionError")
        ELSE IF dt < 0
        THEN Raised(drawn, "ValueError")
        ELSE Done([drawn EXCEPT
                     !.x_vec = VAdd(@, [i \in 1..self.n |->
                                          FAdd(incr, dz_vec[i])]),
                     !.cur_time = new_time])

\* step has no guard: with dt = 0 the rate query divides by zero, which
\* either raises or yields nan (zero_dt); with dt < 0 math.sqrt raises after
\* the variates were drawn
BSMC_step(self, new_time, zero_dt) ==
    LET dt == new_time - self.cur_time
        fwd_rate == IF dt = 0 THEN NaN
                    ELSE Rate(self.asset_fwd, new_time, self.cur_time)
        queried == [self EXCEPT !.asset_fwd = Queried(@)]
        drawn == [queried EXCEPT !.rng = Drawn(@, self.n)]
        dz_vec == VMulS(VMulS(StandardNormal(self.rng, self.n),
                              PySqrt(TimeF(dt))), self.vol)
        incr == FMul(FSub(fwd_rate, FHalf(FMul(self.vol, self.vol))),
                     TimeF(dt))
    IN  IF dt = 0 /\ zero_dt = "ZeroDivisionError"
        THEN Raised(queried, "ZeroDivisionError")
        ELSE IF dt < 0
        THEN Raised(drawn, "ValueError")
        ELSE Done([drawn EXCEPT
                     !.x_vec = VAdd(@, [i \in 1..self.n |->
                                          FAdd(incr, dz_vec[i])]),
                     !.cur_time = new_time])

BSMC_get_value(self, unit) ==
    IF unit = self.asset
    THEN Array(VMulS(VExp(self.x_vec), self.spot))
    ELSE None

BSMC_get_df(self) == Float(Discount(self.discounter, self.cur_time))

\* ------------------------------------------------- outcomes of the calls
\* no object: the constructor raised
NoObject == [n |-> 0]

\* BSStateMC(timetable, dataset): the subscripts of __init__ raise KeyError
\* for an absent section or asset; VOL is stored as it is
BSStateMC_new(dataset) ==
    IF "MC" \notin DOMAIN dataset THEN Raised(NoObject, "KeyError")
    ELSE IF "BS" \notin DOMAIN dataset THEN Raised(NoObject, "KeyError")
    ELSE IF dataset.BS.ASSET \notin DOMAIN dataset.ASSETS
    THEN Raised(NoObject, "KeyError")
    ELSE Done(BSStateMC_init(dataset))

\* BS2State(timetable, dataset): VOL1 and VOL2 are stored as they are
BS2State_new(dataset) ==
    IF "BS2" \notin DOMAIN dataset THEN Raised(NoObject, "KeyError")
    ELSE IF dataset.BS2.ASSET1 \notin DOMAIN dataset.ASSETS
    THEN Raised(NoObject, "KeyError")
    ELSE IF dataset.BS2.ASSET2 \notin DOMAIN dataset.ASSETS
    THEN Raised(NoObject, "KeyError")
    ELSE IF ~IsNumeric(dataset.BS2.CORR) THEN Raised(NoObject, "TypeError")
    ELSE IF "MC" \notin DOMAIN dataset THEN Raised(NoObject, "KeyError")
    ELSE Done(BS2State_init(dataset))

\* MyState(timetable, dataset): the Heston parameters are stored as they are
MyState_new(dataset) ==
    IF "MC" \notin DOMAIN dataset THEN Raised(NoObject, "KeyError")
    ELSE IF "HESTON" \notin DOMAIN dataset THEN Raised(NoObject, "KeyError")
    ELSE IF dataset.HESTON.ASSET \notin DOMAIN dataset.ASSETS
    THEN Raised(NoObject, "KeyError")
    ELSE Done(MyState_init(dataset))

\* BSStateMC.advance as a call: with a VOL that is not a number the
\* product of line 121 raises TypeError, after the rate query and the draw
BSStateMC_advance_call(self, new_time) ==
    IF new_time - self.cur_time >= EPS /\ ~IsNumeric(self.vol)
    THEN Raised([self EXCEPT !.asset_fwd = Queried(@),
                             !.rng = Drawn(@, self.n)], "TypeError")
    ELSE Done(BSStateMC_advance(self, new_time))

\* BS2State.advance as a call: with a VOL2 that is not a number the drift
\* of asset 2 raises TypeError, after the rate queries, the draws and the
\* two additions to x1_vec (which do not read vol2)
BS2State_advance_call(self, new_time) ==
    IF new_time - self.cur_time >= EPS /\ ~IsNumeric(self.vol2)
    THEN LET moved == BS2State_advance([self EXCEPT !.vol2 = 0], new_time)
         IN  Raised([moved EXCEPT !.vol2 = self.vol2,
                                  !.x2_vec = self.x2_vec,
                                  !.cur_time = self.cur_time], "TypeError")
    ELSE Done(BS2State_advance(self, new_time))

\* MyState.advance as a call: with a VOL_OF_VAR that is not a number the
\* second addition to v_vec raises TypeError, after the rate query, the
\* draw, the two additions to x_vec and the first addition to v_vec (which
\* do not read vvol)
MyState_advance_call(self, new_time) ==
    IF new_time - self.cur_time >= EPS /\ ~IsNumeric(self.heston_params[2])
    THEN LET moved == MyState_advance(
                          [self EXCEPT !.heston_params[2] = 0], new_time)
         IN  Raised([moved EXCEPT !.heston_params = self.heston_params,
                                  !.cur_time = self.cur_time], "TypeError")
    ELSE Done(MyState_advance(self, new_time))

\* ---------------------------------------------------------------- datasets
Kinds == {"BSStateMC", "BS2State", "MyState", "BSMC"}

Vols == {ONE \div 2, ONE}
Corrs == {0 - ONE, ONE \div 2, ONE}

SpxCurves == {[spot |-> 2 * ONE, r1 |-> 2, r2 |-> 4],
              [spot |-> 2 * ONE, r1 |-> 0, r2 |-> 0]}
RutCurves == {[spot |-> ONE, r1 |-> 2, r2 |-> 4],
              [spot |-> ONE, r1 |-> 0, r2 |-> 2]}
UsdCurve == [spot |-> ONE, r1 |-> 1, r2 |-> 1]

AssetTables == {[u \in Units |-> IF u = "SPX" THEN spx
                                 ELSE IF u = "RUT" THEN rut ELSE UsdCurve] :
                spx \in SpxCurves, rut \in RutCurves}

\* the MC section; TIMESTEP is in ticks
McSections == {[PATHS |-> PATHS, SEED |-> seed, TIMESTEP |-> 1] :
               seed \in Seeds}

\* one asset: the tables that differ only in the other asset are the same
\* dataset for these models
OneAssetTables == {a \in AssetTables : a["RUT"].r1 = 2}

BsDatasets ==
    {[BASE |-> "USD", ASSETS |-> a, MC |-> mc,
      BS |-> [ASSET |-> "SPX", VOL |-> vol]] :
     a \in OneAssetTables, mc \in McSections, vol \in Vols}

\* two assets: the curve of the second asset has the rates of the first or
\* other rates
TwoAssetTables == {a \in AssetTables : a["SPX"].r1 = 2}

Bs2Datasets ==
    {[BASE |-> "USD", ASSETS |-> a, MC |-> mc,
      BS2 |-> [ASSET1 |-> "SPX", VOL1 |-> ONE \div 2,
               ASSET2 |-> "RUT", VOL2 |-> vol2, CORR |-> corr]] :
     a \in TwoAssetTables, mc \in McSections, vol2 \in Vols, corr \in Corrs}

\* the Heston runs range over one more seed, so that variance shocks of
\* both signs occur in consecutive steps
HestonMcSections == {[PATHS |-> PATHS, SEED |-> seed, TIMESTEP |-> 1] :
                     seed \in 1..(MaxSeed + 1)}

HestonDatasets ==
    {[BASE |-> "USD", ASSETS |-> a, MC |-> mc,
      HESTON |-> [ASSET |-> "SPX", INITIAL_VAR |-> ONE \div 2,
                  LONG_VAR |-> ONE \div 2, VOL_OF_VAR |-> vvol,
                  MEANREV |-> ONE \div 4, CORRELATION |-> corr]] :
     a \in OneAssetTables, mc \in HestonMcSections,
     vvol \in {ONE \div 2, 2 * ONE}, corr \in {0 - ONE, 0}}

Datasets(k) == IF k = "BS2State" THEN Bs2Datasets
               ELSE IF k = "MyState" THEN HestonDatasets
               ELSE BsDatasets

\* what Forwards.rate does when both times are equal
Rate0Outcomes(k) == IF k = "BSMC" THEN {"ZeroDivisionError", "nan"}
                    ELSE {"nan"}

Construct(k, ds) ==
    IF k = "BSStateMC" THEN BSStateMC_init(ds)
    ELSE IF k = "BS2State" THEN BS2State_init(ds)
    ELSE IF k = "MyState" THEN MyState_init(ds)
    ELSE BSMC_init(ds)

Call(obj, op, t, unit, exc) ==
    [obj |-> obj, op |-> op, t |-> t, unit |-> unit, exc |-> exc]

Init ==
    /\ kind \in Kinds
    /\ run_data \in Datasets(kind)
    /\ rate0 \in Rate0Outcomes(kind)
    /\ st = Construct(kind, run_data)
    /\ tw = Construct(kind, run_data)
    /\ pending = <<>>
    /\ last = Call("A", "init", 0, "", "none")
    /\ req = [t |-> 0, mono |-> TRUE]
    /\ ret = None

\* the outcome of a mutating call on an object of class k
Apply(k, self, op, t) ==
    IF op = "reset" THEN Done(BSMC_reset(self))
    ELSE IF k = "BSStateMC" THEN BSStateMC_advance_call(self, t)
    ELSE IF k = "BS2State" THEN BS2State_advance_call(self, t)
    ELSE IF k = "MyState" THEN MyState_advance_call(self, t)
    ELSE BSMC_step(self, t, rate0)

\* a mutating call on the first object
Mutate(op, t) ==
    LET out == Apply(kind, st, op, t)
    IN  /\ Len(pending) < MaxLag
        /\ st' = out.obj
        /\ pending' = Append(pending, [op |-> op, t |-> t])
        /\ last' = Call("A", op, t, "", out.exc)
        /\ req' = IF op = "reset" THEN [t |-> 0, mono |-> TRUE]
                  ELSE [t |-> t, mono |-> req.mono /\ t >= req.t]
        /\ ret' = None
        /\ UNCHANGED <<kind, run_data, rate0, tw>>

AdvanceBS(new_time) ==
    /\ kind = "BSStateMC"
    /\ Mutate("advance", new_time)

AdvanceBS2(new_time) ==
    /\ kind = "BS2State"
    /\ Mutate("advance", new_time)

AdvanceHeston(new_time) ==
    /\ kind = "MyState"
    /\ Mutate("advance", new_time)

StepBSMC(new_time) ==
    /\ kind = "BSMC"
    /\ st.rng.pos + st.n <= MaxDraws
    /\ st.asset_fwd.calls < MaxDraws
    /\ Mutate("step", new_time)

ResetBSMC ==
    /\ kind = "BSMC"
    /\ Mutate("reset", 0)

GetValueOf(k, self, unit) ==
    IF k = "BSStateMC" THEN BSStateMC_get_value(self, unit)
    ELSE IF k = "BS2State" THEN BS2State_get_value(self, unit)
    ELSE IF k = "MyState" THEN MyState_get_value(self, unit)
    ELSE BSMC_get_value(self, unit)

GetValue(unit) ==
    /\ ret' = GetValueOf(kind, st, unit)
    /\ last' = Call("A", "get_value", 0, unit, "none")
    /\ UNCHANGED <<kind, run_data, rate0, st, tw, pending, req>>

GetDf ==
    /\ kind = "BSMC"
    /\ ret' = BSMC_get_df(st)
    /\ last' = Call("A", "get_df", 0, "", "none")
    /\ UNCHANGED <<kind, run_data, rate0, st, tw, pending, req>>

\* the second object receives the oldest call it has not yet received
Replay ==
    /\ pending # <<>>
    /\ LET c == Head(pending)
           out == Apply(kind, tw, c.op, c.t)
       IN  /\ tw' = out.obj
           /\ last' = Call("B", c.op, c.t, "", out.exc)
    /\ pending' = Tail(pending)
    /\ ret' = None
    /\ UNCHANGED <<kind, run_data, rate0, st, req>>

Next ==
    \/ \E t \in Times : AdvanceBS(t)
    \/ \E t \in Times : AdvanceBS2(t)
    \/ \E t \in Times : AdvanceHeston(t)
    \/ \E t \in Times : StepBSMC(t)
    \/ ResetBSMC
    \/ \E u \in Units : GetValue(u)
    \/ GetDf
    \/ Replay

Spec == Init /\ [][Next]_vars

TypeOK ==
    /\ kind \in Kinds
    /\ st.cur_time \in Times
    /\ Len(pending) <= MaxLag

\* ------------------------------------------------------------ properties
Guarded == {"BSStateMC", "BS2State", "MyState"}

\* the advance of a guarded class, as a function of the object
AdvanceOf(k, self, t) == Apply(k, self, "advance", t).obj

\* the step from the state before to the state after is a call of op on st
CallOnA(op) == last'.obj = "A" /\ last'.op = op

\* the asset names a dataset configures for the model of class k
Configured(k, ds) ==
    IF k = "BS2State" THEN {ds.BS2.ASSET1, ds.BS2.ASSET2}
    ELSE IF k = "MyState" THEN {ds.HESTON.ASSET}
    ELSE {ds.BS.ASSET}

\* C1: in BSStateMC and BS2State, advance(new_time) with new_time <=
\* cur_time leaves the whole object as it was: the log-price vector(s), the
\* clock, the position of the generator and the number of queries made to
\* the forward curve(s); and from every reachable state a second advance(t)
\* leaves the object that the first advance(t) produced.
C1_NoOpAdvance ==
    [][/\ (/\ kind \in {"BSStateMC", "BS2State"}
           /\ CallOnA("advance")
           /\ last'.t <= st.cur_time) => st' = st
       /\ kind \in {"BSStateMC", "BS2State"} =>
              \A t \in Times :
                  AdvanceOf(kind, AdvanceOf(kind, st', t), t)
                      = AdvanceOf(kind, st', t)]_vars

\* a two-asset object that has drawn variates was just asked for a time
\* strictly in its past
C1_Witness ==
    /\ kind = "BS2State"
    /\ last.obj = "A" /\ last.op = "advance"
    /\ last.t < st.cur_time
    /\ st.rng.pos > 0

\* C2: in the guarded classes, for a sequence of advance calls with
\* non-decreasing new_time, the clock after a call is the new_time passed,
\* or the clock before the call when new_time - cur_time is below the
\* threshold.
C2_ClockFollowsRequest ==
    [][(/\ kind \in Guarded
        /\ CallOnA("advance")
        /\ req'.mono)
       => st'.cur_time = IF last'.t - st.cur_time < EPS
                         THEN st.cur_time
                         ELSE last'.t]_vars

\* in a non-decreasing sequence, a single-asset object that already moved
\* was asked for a time one tick after its clock and kept its clock
C2_Witness ==
    /\ kind = "BSStateMC"
    /\ last.obj = "A" /\ last.op = "advance"
    /\ req.mono
    /\ st.cur_time > 0
    /\ last.t = st.cur_time + 1

\* C3: the clock of an object never decreases in a call of advance or
\* step, whatever time is passed, in the guarded classes and in BSMC.
C3_ClockNonDecreasing ==
    [][(CallOnA("advance") \/ CallOnA("step"))
       => st'.cur_time >= st.cur_time]_vars

\* BSMC.step was called with a time before the clock
C3_Witness ==
    /\ kind = "BSMC"
    /\ last.obj = "A" /\ last.op = "step"
    /\ last.t < st.cur_time

ValueArray(ds, asset, x_vec) ==
    [i \in 1..PATHS |-> FMul(NpExp(x_vec[i]), ds.ASSETS[asset].spot)]

\* the log-price vector an object keeps for an asset it owns
LogPrices(k, self, asset) ==
    IF k = "BS2State"
    THEN IF asset = self.asset1 THEN self.x1_vec ELSE self.x2_vec
    ELSE self.x_vec

\* C5: for a configured asset get_value returns the array of length PATHS
\* of spot * exp(x) over the log-price vector of that asset, the spot
\* being the forward at time 0 of that asset (asset 1 with x1_vec and
\* spot1, asset 2 with x2_vec and spot2, for distinct asset names); until
\* the first variate is drawn every entry is the spot.
C5_ValueIsSpotTimesExp ==
    /\ \A u \in Configured(kind, run_data) :
          LET v == GetValueOf(kind, st, u).val
          IN  /\ Len(v) = PATHS
              /\ v = ValueArray(run_data, u, LogPrices(kind, st, u))
              /\ st.rng.pos = 0 =>
                    \A i \in 1..PATHS : v[i] = run_data.ASSETS[u].spot
    /\ (last.op = "get_value" /\ last.unit \in Configured(kind, run_data)) =>
          ret.val = ValueArray(run_data, last.unit,
                               LogPrices(kind, st, last.unit))

\* the second asset of a two-asset object was valued after the two vectors
\* had moved apart
C5_Witness ==
    /\ kind = "BS2State"
    /\ st.cur_time > 0
    /\ st.x1_vec # st.x2_vec
    /\ last.op = "get_value"
    /\ last.unit = st.asset2
    /\ ret.tag = "array"
    /\ ret.val # ValueArray(run_data, st.asset2, st.x1_vec)

\* both curves of a two-asset dataset carry the same forward rates
SameRates(ds) ==
    /\ ds.ASSETS[ds.BS2.ASSET1].r1 = ds.ASSETS[ds.BS2.ASSET2].r1
    /\ ds.ASSETS[ds.BS2.ASSET1].r2 = ds.ASSETS[ds.BS2.ASSET2].r2

\* C6 as stated: with correlation 1 and equal volatilities the two
\* log-price vectors of the two-asset object are elementwise identical in
\* every reachable state.
C6_Original ==
    (/\ kind = "BS2State"
     /\ st.corr = ONE
     /\ st.vol1 = st.vol2) => st.x1_vec = st.x2_vec

\* C6 amended: with correlation 1, equal volatilities and forward curves
\* that imply the same forward rates for both assets, the two log-price
\* vectors are elementwise identical in every reachable state, and on
\* every path the spot-normalised value of asset 2 equals that of asset 1
\* (so the best of the two is the value of asset 1).
C6_IdenticalUnderFullCorrelation ==
    (/\ kind = "BS2State"
     /\ st.corr = ONE
     /\ st.vol1 = st.vol2
     /\ SameRates(run_data))
    => /\ st.x1_vec = st.x2_vec
       /\ \A i \in 1..PATHS :
             BS2State_get_value(st, st.asset2).val[i] * st.spot1
                 = BS2State_get_value(st, st.asset1).val[i] * st.spot2

\* a fully correlated pair with equal volatilities and equal rates after
\* two effective advances that moved the prices
C6_Witness ==
    /\ kind = "BS2State"
    /\ st.corr = ONE
    /\ st.vol1 = st.vol2
    /\ SameRates(run_data)
    /\ st.rng.pos >= 4 * st.n
    /\ st.x1_vec # NpZeros(st.n)

\* the variates are drawn for the object that is one call ahead (st) from
\* the object before that call (tw): the call was an effective advance
AdvancedFrom(before, after) ==
    /\ pending # <<>>
    /\ last.obj = "A" /\ last.op = "advance"
    /\ after.cur_time > before.cur_time

\* C7: in the Heston object the argument of the square root is
\* max(0, v) >= 0 on every path in every reachable state, so the floored
\* volatility is never NaN, also for negative stored variance, and no NaN
\* is in the log-price vector or the variance vector.
C7_FlooredVolatilityDefined ==
    kind = "MyState" =>
        /\ \A i \in 1..PATHS : NpMaximum(0, st.v_vec[i]) >= 0
        /\ ~HasNaN(VolVec(st.v_vec))
        /\ ~HasNaN(st.x_vec)
        /\ ~HasNaN(st.v_vec)

\* a Heston object was advanced from a state with a negative variance
C7_Witness ==
    /\ kind = "MyState"
    /\ AdvancedFrom(tw, st)
    /\ \E i \in 1..PATHS : tw.v_vec[i] < 0
    /\ ~HasNaN(st.x_vec)

\* C8: the stored variance is not clamped: only an effective advance
\* changes v_vec, and for a path whose stored variance is negative the
\* advance starts from that negative value, v' = v + (theta - v) * kappa *
\* dt (its floored volatility, and with it the diffusion term, is 0).
C8_VarianceStoredUnclamped ==
    [][kind = "MyState" =>
         IF CallOnA("advance") /\ last'.t - st.cur_time >= EPS
         THEN \A i \in 1..PATHS :
                st.v_vec[i] < 0 =>
                  st'.v_vec[i]
                    = st.v_vec[i]
                      + FMul(FMul(st.heston_params[1] - st.v_vec[i],
                                  st.heston_params[3]),
                             TimeF(last'.t - st.cur_time))
         ELSE st'.v_vec = st.v_vec]_vars

\* a negative stored variance was the start of an effective advance that
\* left it negative
C8_Witness ==
    /\ kind = "MyState"
    /\ AdvancedFrom(tw, st)
    /\ \E i \in 1..PATHS : tw.v_vec[i] < 0 /\ st.v_vec[i] < 0

\* C9: MyState.advance with dt = new_time - cur_time below the threshold
\* (zero and negative included) leaves the whole object as it was: x_vec,
\* v_vec, the clock and the position of the generator.
C9_HestonGuardedNoOp ==
    [][(/\ kind = "MyState"
        /\ CallOnA("advance")
        /\ last'.t - st.cur_time < EPS) => st' = st]_vars

\* a Heston object that has moved was asked for a time one tick ahead
C9_Witness ==
    /\ kind = "MyState"
    /\ last.obj = "A" /\ last.op = "advance"
    /\ st.rng.pos > 0
    /\ last.t = st.cur_time + 1

NextVariates(k, self) ==
    IF k = "MyState"
    THEN MultivariateNormal(self.rng, EPS, self.heston_params[4], self.n)
    ELSE IF k = "BS2State"
    THEN << StandardNormal(self.rng, self.n),
            StandardNormal(Drawn(self.rng, self.n), self.n) >>
    ELSE << StandardNormal(self.rng, self.n) >>

\* what an object shows and would consume next: the answer of get_value
\* for every unit and the next variates of its generator
Behaviour(k, self) ==
    [values |-> [u \in Units |-> GetValueOf(k, self, u)],
     variates |-> NextVariates(k, self)]

Vectors(k, self) ==
    IF k = "BS2State" THEN {self.x1_vec, self.x2_vec}
    ELSE IF k = "MyState" THEN {self.x_vec, self.v_vec}
    ELSE {self.x_vec}

\* a log-price vector x moved over the interval [a, b] on the curve fwd with
\* the volatility vol on every path and the Brownian increments dw
LogPriceOver(x, fwd, vol, dw, a, b) ==
    [i \in 1..Len(x) |->
        x[i] + FMul(FSub(Rate(fwd, b, a), FHalf(FMul(vol[i], vol[i]))),
                    TimeF(b - a))
             + FMul(vol[i], dw[i])]

\* a variance vector v moved over the interval [a, b] with the volatility
\* vol on every path and the Brownian increments dw
VarianceOver(v, theta, vvol, meanrev, vol, dw, a, b) ==
    [i \in 1..Len(v) |->
        v[i] + FMul(FMul(theta - v[i], meanrev), TimeF(b - a))
             + FMul(FMul(vvol, vol[i]), dw[i])]

\* the Brownian increments of the two assets of a two-asset object over an
\* interval of length dt
BS2Increments(self, dt) ==
    LET z1 == StandardNormal(self.rng, self.n)
        z2 == StandardNormal(Drawn(self.rng, self.n), self.n)
    IN  << [i \in 1..self.n |-> FMul(z1[i], PySqrt(TimeF(dt)))],
           [i \in 1..self.n |->
               FMul(FMul(z2[i], self.corr_sup) + FMul(z1[i], self.corr),
                    PySqrt(TimeF(dt)))] >>

\* C12: in every reachable state every state vector has length PATHS, and
\* a call of advance either leaves the clock and every vector as they
\* were, or moves the clock to new_time and every vector over the one
\* interval [cur_time, new_time]: x1_vec and x2_vec of the two-asset
\* object, x_vec and v_vec of the Heston object.
C12_VectorsInLockStep ==
    [][/\ \A v \in Vectors(kind, st') : Len(v) = PATHS
       /\ (CallOnA("advance") /\ kind \in {"BS2State", "MyState"}) =>
             LET a == st.cur_time
                 b == last'.t
             IN  IF st'.cur_time = a
                 THEN Vectors(kind, st') = Vectors(kind, st)
                 ELSE /\ st'.cur_time = b
                      /\ kind = "BS2State" =>
                            LET dw == BS2Increments(st, b - a)
                            IN  /\ st'.x1_vec
                                     = LogPriceOver(st.x1_vec, st.asset_fwd1,
                                           NpFull(st.n, st.vol1), dw[1], a, b)
                                /\ st'.x2_vec
                                     = LogPriceOver(st.x2_vec, st.asset_fwd2,
                                           NpFull(st.n, st.vol2), dw[2], a, b)
                      /\ kind = "MyState" =>
                            LET dw == MultivariateNormal(st.rng, b - a,
                                          st.heston_params[4], st.n)
                                vol == VolVec(st.v_vec)
                            IN  /\ st'.x_vec
                                     = LogPriceOver(st.x_vec, st.asset_fwd,
                                                    vol, dw[1], a, b)
                                /\ st'.v_vec
                                     = VarianceOver(st.v_vec,
                                           st.heston_params[1],
                                           st.heston_params[2],
                                           st.heston_params[3],
                                           vol, dw[2], a, b)]_vars

\* a two-asset object was advanced a second time, from a clock after 0
C12_Witness ==
    /\ kind = "BS2State"
    /\ AdvancedFrom(tw, st)
    /\ tw.cur_time > 0
    /\ st.x1_vec # tw.x1_vec
    /\ st.x2_vec # tw.x2_vec

\* the two states of a state object
Initialized(k, ds, self) ==
    /\ self.cur_time = 0
    /\ self = Construct(k, ds)
    /\ \A u \in Configured(k, ds) :
          LogPrices(k, self, u) = NpZeros(ds.MC.PATHS)
    /\ k = "MyState" =>
          self.v_vec = NpFull(ds.MC.PATHS, ds.HESTON.INITIAL_VAR)

Advanced(self) ==
    /\ self.cur_time > 0
    /\ self.rng.pos > 0

\* C13: an object of a guarded class is in exactly one of two states:
\* Initialized (clock 0, log-prices 0, Heston variance INITIAL_VAR, no
\* variate drawn) or Advanced (clock after 0, reached by an effective
\* advance). An advance below the threshold leaves an Initialized object
\* Initialized, an Initialized object becomes Advanced only by an effective
\* advance, and no call returns an Advanced object to Initialized.
C13_InitializedThenAdvanced ==
    [][(kind \in Guarded) =>
         /\ Initialized(kind, run_data, st) # Advanced(st)
         /\ Initialized(kind, run_data, st') # Advanced(st')
         /\ (/\ Initialized(kind, run_data, st)
             /\ CallOnA("advance")
             /\ last'.t - st.cur_time < EPS) => Initialized(kind, run_data, st')
         /\ (Initialized(kind, run_data, st) /\ Advanced(st')) =>
                (/\ CallOnA("advance")
                 /\ last'.t - st.cur_time >= EPS
                 /\ st'.cur_time = last'.t)
         /\ Advanced(st) => Advanced(st')]_vars

\* an Advanced Heston object was asked to go back to time 0
C13_Witness ==
    /\ kind = "MyState"
    /\ last.obj = "A" /\ last.op = "advance"
    /\ last.t = 0
    /\ Advanced(st)
    /\ ~Initialized(kind, run_data, st)

\* C14: no call of advance, step or get_value on a constructed object
\* fails, for any sequence of calls and any new_time, in the guarded classes
\* and in BSMC, whose step evaluates sqrt(dt) without a guard. (The curve
\* library is granted the outcome that does not raise on an empty
\* interval.)
C14_NeverFails ==
    (/\ last.op \in {"advance", "step", "get_value"}
     /\ rate0 = "nan") => last.exc = "none"

\* ------------------------------------------------ configuration errors
\* the section of the dataset the model of a class reads
Section(k) == IF k = "BS2State" THEN "BS2"
              ELSE IF k = "MyState" THEN "HESTON" ELSE "BS"

Without(ds, key) == [f \in DOMAIN ds \ {key} |-> ds[f]]

\* a dataset with one configuration error
Misconfigured(k) ==
    LET sec == Section(k)
    IN  UNION {
          { Without(ds, "MC"),
            Without(ds, sec),
            IF k = "BS2State" THEN [ds EXCEPT ![sec].ASSET2 = "NDX"]
            ELSE [ds EXCEPT ![sec].ASSET = "NDX"],
            IF k = "BS2State" THEN [ds EXCEPT ![sec].VOL2 = NotNumeric]
            ELSE IF k = "MyState"
            THEN [ds EXCEPT ![sec].VOL_OF_VAR = NotNumeric]
            ELSE [ds EXCEPT ![sec].VOL = NotNumeric] } :
          ds \in Datasets(k) }

\* the constructor call of a guarded class
New(k, ds) ==
    IF k = "BSStateMC" THEN BSStateMC_new(ds)
    ELSE IF k = "BS2State" THEN BS2State_new(ds)
    ELSE MyState_new(ds)

InitConfig ==
    /\ kind \in Guarded
    /\ run_data \in Datasets(kind) \cup Misconfigured(kind)
    /\ rate0 = "nan"
    /\ st = New(kind, run_data).obj
    /\ tw = New(kind, run_data).obj
    /\ pending = <<>>
    /\ last = Call("A", "init", 0, "", New(kind, run_data).exc)
    /\ req = [t |-> 0, mono |-> TRUE]
    /\ ret = None

\* the number of rate queries an object has made
Queries(k, self) ==
    IF k = "BS2State" THEN self.asset_fwd1.calls ELSE self.asset_fwd.calls

\* advance on the object the constructor returned, if it returned one
AdvanceConfigured(new_time) ==
    /\ st # NoObject
    /\ Queries(kind, st) < MaxCalls
    /\ Mutate("advance", new_time)

GetValueConfigured(unit) ==
    /\ st # NoObject
    /\ GetValue(unit)

NextConfig ==
    \/ \E t \in Times : AdvanceConfigured(t)
    \/ \E u \in Units : GetValueConfigured(u)
    \/ Replay

SpecConfig == InitConfig /\ [][NextConfig]_vars

\* the volatility parameters a dataset holds for the model of class k
Volatilities(k, ds) ==
    IF k = "BS2State" THEN {ds.BS2.VOL1, ds.BS2.VOL2}
    ELSE IF k = "MyState" THEN {ds.HESTON.VOL_OF_VAR}
    ELSE {ds.BS.VOL}

\* the dataset has the MC section and the model section, the model's asset
\* names are in ASSETS and its volatilities are numbers
WellConfigured(k, ds) ==
    /\ "MC" \in DOMAIN ds
    /\ Section(k) \in DOMAIN ds
    /\ Configured(k, ds) \subseteq DOMAIN ds.ASSETS
    /\ \A v \in Volatilities(k, ds) : IsNumeric(v)

\* C15: for a dataset with a configuration error (no MC section, no model
\* section, a model asset name that is not in ASSETS, a volatility that is
\* not a number) the constructor raises and no object results, so that no
\* such error is left to a later advance or get_value call.
C15_ConfigErrorsAtConstruction ==
    ~WellConfigured(kind, run_data) =>
        /\ st = NoObject
        /\ last.op = "init"
        /\ last.exc # "none"

\* ------------------------------- two-asset and single-asset side by side
\* the single-asset dataset for the first asset of a two-asset dataset: the
\* same curves, seed and paths, and the volatility of asset 1
SingleAssetOf(ds) ==
    [BASE |-> ds.BASE, ASSETS |-> ds.ASSETS, MC |-> ds.MC,
     BS |-> [ASSET |-> ds.BS2.ASSET1, VOL |-> ds.BS2.VOL1]]

\* st is a BS2State and tw the BSStateMC for its first asset
InitPair ==
    /\ kind = "BS2State"
    /\ run_data \in Bs2Datasets
    /\ rate0 = "nan"
    /\ st = BS2State_init(run_data)
    /\ tw = BSStateMC_init(SingleAssetOf(run_data))
    /\ pending = <<>>
    /\ last = Call("A", "init", 0, "", "none")
    /\ req = [t |-> 0, mono |-> TRUE]
    /\ ret = None

\* the driver advances both objects to the same time
AdvancePair(new_time) ==
    /\ st' = BS2State_advance(st, new_time)
    /\ tw' = BSStateMC_advance(tw, new_time)
    /\ last' = Call("A", "advance", new_time, "", "none")
    /\ req' = [t |-> new_time, mono |-> req.mono /\ new_time >= req.t]
    /\ ret' = None
    /\ UNCHANGED <<kind, run_data, rate0, pending>>

\* the driver asks the two-asset object for the value of a unit
GetValuePair(unit) ==
    /\ ret' = BS2State_get_value(st, unit)
    /\ last' = Call("A", "get_value", 0, unit, "none")
    /\ UNCHANGED <<kind, run_data, rate0, st, tw, pending, req>>

NextPair ==
    \/ \E t \in Times : AdvancePair(t)
    \/ \E u \in Units : GetValuePair(u)

SpecPair == InitPair /\ [][NextPair]_vars

\* the values of asset 1 in the two-asset object are the values of the
\* single-asset object
SameAsSingleAsset ==
    /\ st.x1_vec = tw.x_vec
    /\ BS2State_get_value(st, st.asset1) = BSStateMC_get_value(tw, tw.asset)
    /\ (last.op = "get_value" /\ last.unit = st.asset1) =>
          ret = BSStateMC_get_value(tw, tw.asset)

\* C16 as stated: with correlation 1, the same seed, volatility, forward
\* curve and advance times, the values of asset 1 of the two-asset object
\* equal the values of the single-asset object after every advance.
C16_Original ==
    st.corr = ONE => SameAsSingleAsset

\* C16 amended: with correlation 1, the same seed, volatility, forward
\* curve and advance times, the values of asset 1 of the two-asset object
\* equal the values of the single-asset object after every advance up to
\* and including the first effective one (the two-asset object has drawn
\* at most 2 * PATHS variates).
C16_SameAsSingleAssetOneStep ==
    (st.corr = ONE /\ st.rng.pos <= 2 * st.n) => SameAsSingleAsset

\* a fully correlated two-asset object was asked for asset 1 after its
\* first effective advance had moved the prices
C16_Witness ==
    /\ st.corr = ONE
    /\ st.rng.pos = 2 * st.n
    /\ tw.rng.pos = tw.n
    /\ st.x1_vec # NpZeros(st.n)
    /\ last.op = "get_value"
    /\ last.unit = st.asset1
    /\ ret.tag = "array"

\* the increment of the log-price of path i in a single-asset step of an
\* object from its clock to new_time
SingleAssetIncrement(self, new_time, i) ==
    LET dt == new_time - self.cur_time
        drift == FMul(FSub(Rate(self.asset_fwd, new_time, self.cur_time),
                           FHalf(FMul(self.vol, self.vol))),
                      TimeF(dt))
        z == Z(self.rng.seed, self.rng.pos + i)
    IN  FAdd(drift, FMul(FMul(z, PySqrt(TimeF(dt))), self.vol))

\* C18: an effective single-asset advance or step (dt at or above the
\* threshold) adds to every path i the drift (rate(new_time, cur_time) -
\* vol^2 / 2) * dt, the rate being queried once with the clock before the
\* step, plus the diffusion vol * sqrt(dt) * z_i for the next PATHS
\* variates of the generator, and then assigns new_time to the clock; and
\* from every reachable state the two additions of BSStateMC.advance and
\* the one addition of BSMC.step produce the same object for every
\* new_time with dt at or above the threshold.
C18_SingleAssetUpdate ==
    [][(kind \in {"BSStateMC", "BSMC"}) =>
         /\ ((CallOnA("advance") \/ CallOnA("step"))
                 /\ last'.t - st.cur_time >= EPS) =>
               (/\ last'.exc = "none"
                /\ st'.x_vec = [i \in 1..PATHS |->
                       FAdd(st.x_vec[i],
                            SingleAssetIncrement(st, last'.t, i))]
                /\ st'.rng = [st.rng EXCEPT !.pos = @ + PATHS]
                /\ st'.asset_fwd.calls = st.asset_fwd.calls + 1
                /\ st'.cur_time = last'.t)
         /\ \A t \in Times :
               t - st.cur_time >= EPS =>
                   BSMC_step(st, t, rate0) = Done(BSStateMC_advance(st, t))
       ]_vars

\* BSMC.step was called a second time, with dt at the threshold or above,
\* and returned
C18_Witness ==
    /\ kind = "BSMC"
    /\ pending # <<>>
    /\ last.obj = "A" /\ last.op = "step" /\ last.exc = "none"
    /\ tw.cur_time > 0
    /\ st.cur_time - tw.cur_time >= EPS
    /\ st.x_vec # tw.x_vec
    /\ ~HasNaN(st.x_vec)

\* the drift of a log-price over dt on a curve rate and a volatility
DriftTerm(rate, vol, dt) ==
    FMul(FSub(rate, FHalf(FMul(vol, vol))), TimeF(dt))

\* C19: an effective two-asset advance consumes exactly 2 * PATHS
\* variates of the generator, the first PATHS as z1 and the next PATHS as
\* z2, for every correlation (also for corr = 1 and corr = -1, where z2
\* has the weight 0); it adds to x1_vec the drift of asset 1 (its own
\* curve over [cur_time, new_time], its own volatility) and vol1 *
\* sqrt(dt) * z1, and to x2_vec the drift of asset 2 and vol2 * sqrt(dt) *
\* (corr * z1 + sqrt(1 - corr^2) * z2).
C19_TwoAssetDraws ==
    [][(/\ kind = "BS2State"
        /\ CallOnA("advance")
        /\ last'.t - st.cur_time >= EPS) =>
          LET a == st.cur_time
              b == last'.t
              sq == PySqrt(TimeF(b - a))
              corr == run_data.BS2.CORR
              sup == PySqrt(ONE - FMul(corr, corr))
              z1 == [i \in 1..PATHS |-> Z(st.rng.seed, st.rng.pos + i)]
              z2 == [i \in 1..PATHS |->
                        Z(st.rng.seed, st.rng.pos + PATHS + i)]
          IN  /\ st'.rng = [st.rng EXCEPT !.pos = @ + 2 * PATHS]
              /\ \A i \in 1..PATHS :
                    /\ st'.x1_vec[i]
                         = st.x1_vec[i]
                           + DriftTerm(Rate(st.asset_fwd1, b, a),
                                       run_data.BS2.VOL1, b - a)
                           + FMul(FMul(z1[i], sq), run_data.BS2.VOL1)
                    /\ st'.x2_vec[i]
                         = st.x2_vec[i]
                           + DriftTerm(Rate(st.asset_fwd2, b, a),
                                       run_data.BS2.VOL2, b - a)
                           + FMul(FMul(FMul(z2[i], sup) + FMul(corr, z1[i]),
                                       sq),
                                  run_data.BS2.VOL2)]_vars

\* a two-asset object with correlation -1 made its second effective advance
C19_Witness ==
    /\ kind = "BS2State"
    /\ st.corr = 0 - ONE
    /\ st.corr_sup = 0
    /\ AdvancedFrom(tw, st)
    /\ tw.rng.pos = 2 * PATHS
    /\ st.rng.pos = 4 * PATHS
    /\ st.x2_vec # tw.x2_vec

\* C20: an effective Heston advance is the pair of single-expression
\* updates x += (rate - vol^2 / 2) * dt + vol * shock_price and v +=
\* (theta - v) * kappa * dt + xi * vol * shock_var of the documented
\* scheme, with the parameters of the dataset, every right-hand side being
\* evaluated on the values before the step: vol is sqrt(max(0, v)) of the
\* variance before the step in both updates, and the mean reversion reads
\* the variance before the step.
C20_HestonPreStepValues ==
    [][(/\ kind = "MyState"
        /\ CallOnA("advance")
        /\ last'.t - st.cur_time >= EPS) =>
          LET dt == last'.t - st.cur_time
              h == run_data.HESTON
              rate == Rate(st.asset_fwd, last'.t, st.cur_time)
              shock == MultivariateNormal(st.rng, dt, h.CORRELATION, PATHS)
              vol == [i \in 1..PATHS |->
                         NpSqrt(NpMaximum(0, st.v_vec[i]))]
          IN  \A i \in 1..PATHS :
                /\ st'.x_vec[i]
                     = FAdd(st.x_vec[i],
                            FAdd(FMul(FSub(rate,
                                           FHalf(FMul(vol[i], vol[i]))),
                                      TimeF(dt)),
                                 FMul(vol[i], shock[1][i])))
                /\ st'.v_vec[i]
                     = FAdd(st.v_vec[i],
                            FAdd(FMul(FMul(FSub(h.LONG_VAR, st.v_vec[i]),
                                           h.MEANREV),
                                      TimeF(dt)),
                                 FMul(FMul(h.VOL_OF_VAR, vol[i]),
                                      shock[2][i])))]_vars

\* a Heston object made an effective advance from a variance away from
\* its long-run value, which the step moved
C20_Witness ==
    /\ kind = "MyState"
    /\ AdvancedFrom(tw, st)
    /\ tw.cur_time > 0
    /\ \E i \in 1..PATHS :
          /\ tw.v_vec[i] > 0
          /\ tw.v_vec[i] # run_data.HESTON.LONG_VAR
          /\ st.v_vec[i] # tw.v_vec[i]
          /\ st.x_vec[i] # tw.x_vec[i]

\* ---------------------------------------------------------------- C21
\* stored variances with the floor max(0, v) of a non-positive variance
NonPositiveVariances == (0 - 2 * ONE)..0

\* the mean-reversion addition of line 93 for a stored variance v
MeanReversion(self, v, dt) ==
    FMul(FMul(FSub(self.heston_params[1], v), self.heston_params[3]),
         TimeF(dt))

\* the Heston object with the stored variance of path i replaced by w
WithVariance(self, i, w) == [self EXCEPT !.v_vec[i] = w]

\* the statement of C21 as it was made: the stored variance acts on the
\* update only through the floored square root, so replacing a non-positive
\* stored variance by another non-positive one (the floor, and with it
\* vol_vec, is the same) changes neither the increment of the log-price nor
\* the increment of the variance.
C21_Original ==
    [][(/\ kind = "MyState"
        /\ CallOnA("advance")
        /\ last'.t - st.cur_time >= EPS) =>
          \A i \in 1..PATHS : \A w \in NonPositiveVariances :
             st.v_vec[i] <= 0 =>
               LET alt == MyState_advance(WithVariance(st, i, w), last'.t)
               IN  /\ FSub(alt.x_vec[i], st.x_vec[i])
                        = FSub(st'.x_vec[i], st.x_vec[i])
                   /\ FSub(alt.v_vec[i], w)
                        = FSub(st'.v_vec[i], st.v_vec[i])]_vars

\* C21: in an effective Heston advance the stored variance acts on the
\* log-price update (drift and diffusion) and on the diffusion of the
\* variance only through the floored square root: replacing a non-positive
\* stored variance by another non-positive one changes neither the
\* increment of the log-price nor the increment of the variance less its
\* mean-reversion term. The mean-reversion term (theta - v) * kappa * dt is
\* the one product that takes the stored, unfloored variance.
C21_VarianceThroughFlooredRoot ==
    [][(/\ kind = "MyState"
        /\ CallOnA("advance")
        /\ last'.t - st.cur_time >= EPS) =>
          LET dt == last'.t - st.cur_time
          IN  \A i \in 1..PATHS : \A w \in NonPositiveVariances :
                st.v_vec[i] <= 0 =>
                  LET alt == MyState_advance(WithVariance(st, i, w), last'.t)
                  IN  /\ FSub(alt.x_vec[i], st.x_vec[i])
                           = FSub(st'.x_vec[i], st.x_vec[i])
                      /\ FSub(FSub(alt.v_vec[i], w),
                              MeanReversion(st, w, dt))
                           = FSub(FSub(st'.v_vec[i], st.v_vec[i]),
                                  MeanReversion(st, st.v_vec[i], dt))
                      /\ FSub(st'.v_vec[i], st.v_vec[i])
                           = MeanReversion(st, st.v_vec[i], dt)]_vars

\* a Heston object made an effective advance from a negative stored
\* variance, with non-zero shocks on that path, which mean reversion moved
C21_Witness ==
    /\ kind = "MyState"
    /\ AdvancedFrom(tw, st)
    /\ \E i \in 1..PATHS :
          /\ tw.v_vec[i] < 0
          /\ tw.v_vec[i] \in NonPositiveVariances
          /\ StandardNormal(tw.rng, 2 * PATHS)[2 * i - 1] # 0
          /\ StandardNormal(tw.rng, 2 * PATHS)[2 * i] # 0
          /\ st.v_vec[i] # tw.v_vec[i]

\* ------------------------------------ two two-asset runs side by side
\* the datasets that agree with ds on the seed, the paths, VOL1 and the
\* curve of asset 1, and differ from it in CORR, VOL2 or the curve of
\* asset 2
SameAsset1Data(ds) ==
    {other \in Bs2Datasets :
        /\ other # ds
        /\ other.MC = ds.MC
        /\ other.BS2.ASSET1 = ds.BS2.ASSET1
        /\ other.BS2.VOL1 = ds.BS2.VOL1
        /\ other.ASSETS[other.BS2.ASSET1] = ds.ASSETS[ds.BS2.ASSET1]}

\* st and tw are BS2State objects of two runs
InitRuns ==
    /\ kind = "BS2State"
    /\ run_data \in Bs2Datasets
    /\ rate0 = "nan"
    /\ st = BS2State_init(run_data)
    /\ \E other \in SameAsset1Data(run_data) : tw = BS2State_init(other)
    /\ pending = <<>>
    /\ last = Call("A", "init", 0, "", "none")
    /\ req = [t |-> 0, mono |-> TRUE]
    /\ ret = None

\* both runs advance to the same time
AdvanceRuns(new_time) ==
    /\ st' = BS2State_advance_call(st, new_time).obj
    /\ tw' = BS2State_advance_call(tw, new_time).obj
    /\ last' = Call("A", "advance", new_time, "",
                    BS2State_advance_call(st, new_time).exc)
    /\ req' = [t |-> new_time, mono |-> req.mono /\ new_time >= req.t]
    /\ ret' = None
    /\ UNCHANGED <<kind, run_data, rate0, pending>>

\* the first run is asked for the value of a unit
GetValueRuns(unit) ==
    /\ ret' = BS2State_get_value(st, unit)
    /\ last' = Call("A", "get_value", 0, unit, "none")
    /\ UNCHANGED <<kind, run_data, rate0, st, tw, pending, req>>

NextRuns ==
    \/ \E t \in Times : AdvanceRuns(t)
    \/ \E u \in Units : GetValueRuns(u)

SpecRuns == InitRuns /\ [][NextRuns]_vars

\* C22: two BS2State runs with the same seed, VOL1, curve of asset 1 and
\* sequence of advance times, and different CORR, VOL2 or curve of asset 2,
\* hold the same log-prices of asset 1 and return the same array from
\* get_value(asset1) after every call; both have drawn the same number of
\* variates.
C22_Asset1Independent ==
    /\ st.x1_vec = tw.x1_vec
    /\ st.rng = tw.rng
    /\ st.cur_time = tw.cur_time
    /\ BS2State_get_value(st, st.asset1) = BS2State_get_value(tw, tw.asset1)
    /\ (last.op = "get_value" /\ last.unit = st.asset1) =>
          ret = BS2State_get_value(tw, tw.asset1)

\* two runs that differ in the correlation, in VOL2 and in the curve of
\* asset 2 made two effective advances, after which asset 2 differs and
\* asset 1 was asked for
C22_Witness ==
    /\ st.corr # tw.corr
    /\ st.vol2 # tw.vol2
    /\ st.asset_fwd2.r2 # tw.asset_fwd2.r2
    /\ st.rng.pos = 4 * st.n
    /\ st.x2_vec # tw.x2_vec
    /\ st.x1_vec # NpZeros(st.n)
    /\ last.op = "get_value"
    /\ last.unit = st.asset1
    /\ ret.tag = "array"

\* ---------------------------------------------------------------- C23
\* values of MC.TIMESTEP, in ticks: below the threshold, the longest
\* interval, and far beyond every event time
TimeSteps == {1, MaxTime, 100 * MaxTime}

\* the variates of one batch: n for the single asset, 2n for two assets
\* and for the Heston pair
Batch(k, self) == IF k = "BSStateMC" THEN self.n ELSE 2 * self.n

\* the rate queries made so far to each forward curve of the object
CurveQueries(k, self) ==
    IF k = "BS2State"
    THEN {self.asset_fwd1.calls, self.asset_fwd2.calls}
    ELSE {self.asset_fwd.calls}

\* C23: an effective advance(new_time) of BSStateMC, BS2State or MyState
\* is one Euler step over [cur_time, new_time]: one rate query per forward
\* curve, one batch of variates, and the clock at new_time; a call below
\* the threshold is no step. So the steps made, the rate queries and the
\* batches drawn are equal in number in every state. The object has no
\* field for MC.TIMESTEP, and the constructor builds the same object for
\* every TIMESTEP in the dataset.
C23_OneStepPerAdvance ==
    [][(kind \in Guarded) =>
         /\ "timestep" \notin DOMAIN st
         /\ \A ts \in TimeSteps :
               Construct(kind, [run_data EXCEPT !.MC.TIMESTEP = ts])
                 = Construct(kind, run_data)
         /\ CurveQueries(kind, st) = {Queries(kind, st)}
         /\ st.rng.pos = Batch(kind, st) * Queries(kind, st)
         /\ CallOnA("advance") =>
              IF last'.t - st.cur_time >= EPS
              THEN /\ st'.rng.pos = st.rng.pos + Batch(kind, st)
                   /\ CurveQueries(kind, st') = {Queries(kind, st) + 1}
                   /\ st'.cur_time = last'.t
              ELSE st' = st]_vars

\* a single-asset object crossed the longest interval, several times the
\* TIMESTEP of its dataset, in its first effective advance: one batch, one
\* rate query
C23_Witness ==
    /\ kind = "BSStateMC"
    /\ AdvancedFrom(tw, st)
    /\ tw.cur_time = 0
    /\ st.cur_time = MaxTime
    /\ st.cur_time - tw.cur_time > 2 * run_data.MC.TIMESTEP
    /\ st.rng.pos = st.n
    /\ st.asset_fwd.calls = 1

\* C24: a BSMC.step with dt = new_time - cur_time zero or negative draws
\* no variates and changes neither x_vec nor cur_time nor the position of
\* the generator. The curve library is granted the outcome in which its
\* rate query on a zero interval raises, before anything is drawn.
C24_NoDrawOnNonPositiveDt ==
    [][(/\ kind = "BSMC"
        /\ rate0 = "ZeroDivisionError"
        /\ CallOnA("step")
        /\ last'.t - st.cur_time <= 0) =>
          /\ st'.rng = st.rng
          /\ st'.x_vec = st.x_vec
          /\ st'.cur_time = st.cur_time]_vars

\* --------------------------------------- the caller keeps what it was given
\* the elements of the array the caller holds: those of the returned array
\* itself, or, were the returned object a view of a vector of the object,
\* those of that vector
Held(r, self) == IF r.tag = "view" THEN self[r.of] ELSE r.val

\* the classes whose get_value the driver calls between advances
CallerKinds == {"BSStateMC", "BS2State"}

InitCaller ==
    /\ kind \in CallerKinds
    /\ run_data \in Datasets(kind)
    /\ rate0 = "nan"
    /\ st = Construct(kind, run_data)
    /\ tw = st
    /\ pending = <<>>
    /\ last = Call("A", "init", 0, "", "none")
    /\ req = [t |-> 0, mono |-> TRUE]
    /\ ret = None

\* advance, while the caller keeps the reference it was given
AdvanceCaller(new_time) ==
    /\ st' = Apply(kind, st, "advance", new_time).obj
    /\ last' = Call("A", "advance", new_time, "",
                    Apply(kind, st, "advance", new_time).exc)
    /\ req' = [t |-> new_time, mono |-> req.mono /\ new_time >= req.t]
    /\ UNCHANGED <<kind, run_data, rate0, tw, pending, ret>>

\* get_value: the caller keeps what is returned
GetValueCaller(unit) ==
    /\ ret' = GetValueOf(kind, st, unit)
    /\ last' = Call("A", "get_value", 0, unit, "none")
    /\ UNCHANGED <<kind, run_data, rate0, st, tw, pending, req>>

\* the caller assigns 0 to element i of the array it holds
CallerWrites(i) ==
    /\ ret.tag \in {"array", "view"}
    /\ Held(ret, st)[i] # 0
    /\ IF ret.tag = "view"
       THEN /\ st' = [st EXCEPT ![ret.of][i] = 0]
            /\ ret' = ret
       ELSE /\ st' = st
            /\ ret' = [ret EXCEPT !.val[i] = 0]
    /\ last' = Call("A", "write", i, "", "none")
    /\ UNCHANGED <<kind, run_data, rate0, tw, pending, req>>

NextCaller ==
    \/ \E t \in Times : AdvanceCaller(t)
    \/ \E u \in Units : GetValueCaller(u)
    \/ \E i \in 1..PATHS : CallerWrites(i)

SpecCaller == InitCaller /\ [][NextCaller]_vars

\* C25: the array get_value returned is not the internal vector: an
\* advance made later leaves the elements of the array the caller holds as
\* they were, and an assignment by the caller to an element of that array
\* changes neither the object nor what get_value returns for any unit.
C25_ReturnedArrayNotAliased ==
    [][/\ last'.op = "advance" => Held(ret, st)' = Held(ret, st)
       /\ last'.op = "write" =>
            /\ st' = st
            /\ \A u \in Units :
                  GetValueOf(kind, st, u)' = GetValueOf(kind, st, u)]_vars

\* the caller was given the array of values at time 0, the object then
\* made an effective advance that moved the prices, and the caller then
\* assigned to the first element of its array
C25_Witness ==
    /\ kind = "BSStateMC"
    /\ last.op = "write" /\ last.t = 1
    /\ ret.tag = "array"
    /\ ret.val[1] = 0
    /\ ret.val[2] = st.spot
    /\ st.cur_time > 0
    /\ BSStateMC_get_value(st, st.asset).val[1] # st.spot
    /\ BSStateMC_get_value(st, st.asset).val[2] # st.spot

\* ---------------------------------------------------------------- C26
\* a forward curve without the count of the queries made to it
CurveData(f) == [spot |-> f.spot, r1 |-> f.r1, r2 |-> f.r2]

\* the configuration an object is constructed with
ConfigOf(k, self) ==
    IF k = "BS2State"
    THEN [n |-> self.n, seed |-> self.rng.seed,
          assets |-> <<self.asset1, self.asset2>>,
          spots |-> <<self.spot1, self.spot2>>,
          vols |-> <<self.vol1, self.vol2>>,
          corr |-> <<self.corr, self.corr_sup>>,
          curves |-> <<CurveData(self.asset_fwd1),
                       CurveData(self.asset_fwd2)>>]
    ELSE IF k = "MyState"
    THEN [n |-> self.n, seed |-> self.rng.seed,
          assets |-> <<self.asset>>, spots |-> <<self.spot>>,
          params |-> self.heston_params,
          curves |-> <<CurveData(self.asset_fwd)>>]
    ELSE IF k = "BSMC"
    THEN [n |-> self.n, seed |-> self.rng.seed,
          assets |-> <<self.asset>>, spots |-> <<self.spot>>,
          vols |-> <<self.vol>>, timestep |-> self.timestep,
          dataset |-> self.dataset,
          curves |-> <<CurveData(self.asset_fwd),
                       CurveData(self.discounter)>>]
    ELSE [n |-> self.n, seed |-> self.rng.seed,
          assets |-> <<self.asset>>, spots |-> <<self.spot>>,
          vols |-> <<self.vol>>,
          curves |-> <<CurveData(self.asset_fwd)>>]

\* what an effective advance changes: the vectors, the clock and the
\* position of the generator
Evolving(k, self) ==
    [vectors |-> IF k = "BS2State" THEN <<self.x1_vec, self.x2_vec>>
                 ELSE IF k = "MyState" THEN <<self.x_vec, self.v_vec>>
                 ELSE <<self.x_vec>>,
     cur_time |-> self.cur_time,
     pos |-> self.rng.pos]

\* an advance or step to time t is effective: dt reaches the threshold in
\* the guarded classes, dt is positive in BSMC
Effective(k, self, t) ==
    IF k = "BSMC" THEN t - self.cur_time > 0
    ELSE t - self.cur_time >= EPS

\* C26: no call of advance, step, get_value or get_df changes the
\* configuration fixed at construction (PATHS, seed, asset names, spots,
\* volatilities, correlation and its complement, Heston parameters,
\* curves); get_value and get_df change no field at all; and the vectors,
\* the clock and the position of the generator are changed by an effective
\* advance or step only. The curve library is granted the outcome in which
\* its rate query on a zero interval raises.
C26_FrameOfOperations ==
    [][(/\ kind = "BSMC" => rate0 = "ZeroDivisionError"
        /\ last'.obj = "A"
        /\ last'.op \in {"advance", "step", "get_value", "get_df"}) =>
          /\ ConfigOf(kind, st)' = ConfigOf(kind, st)
          /\ last'.op \in {"get_value", "get_df"} => st' = st
          /\ (/\ last'.op \in {"advance", "step"}
              /\ ~Effective(kind, st, last'.t)) =>
                Evolving(kind, st)' = Evolving(kind, st)]_vars

\* C27: in BSStateMC, BS2State and MyState, as long as the requested times
\* were non-decreasing, the last requested time is at or after the clock
\* and less than the threshold after it: a request below the threshold
\* leaves the clock where it was, the next request is measured against
\* that clock, and a request with dt equal to the threshold is a step.
C27_LagBelowThreshold ==
    [][(kind \in Guarded) =>
         /\ req.mono =>
              /\ req.t - st.cur_time >= 0
              /\ req.t - st.cur_time < EPS
         /\ req'.mono =>
              /\ req'.t - st'.cur_time >= 0
              /\ req'.t - st'.cur_time < EPS
         /\ (CallOnA("advance") /\ last'.t - st.cur_time < EPS) =>
              st'.cur_time = st.cur_time
         /\ (CallOnA("advance") /\ last'.t - st.cur_time = EPS) =>
              /\ st'.cur_time = last'.t
              /\ st'.rng.pos > st.rng.pos]_vars

\* a step of exactly the threshold moved the clock, and the next request,
\* one tick later, was skipped: the lag is one tick
C27_Witness ==
    /\ kind \in Guarded
    /\ req.mono
    /\ last.obj = "A" /\ last.op = "advance"
    /\ st.cur_time = EPS
    /\ st.rng.pos > 0
    /\ req.t = st.cur_time + 1
    /\ last.t = req.t

\* ------------------------------------ drift and diffusion kept apart
\* flat forward rates, per tick
FlatRates == {0, 2, 3}

\* the single-asset datasets with a flat forward curve of the asset
FlatDatasets ==
    {[ds EXCEPT !.ASSETS["SPX"] = [spot |-> 2 * ONE, r1 |-> r, r2 |-> r]] :
     ds \in BsDatasets, r \in FlatRates}

\* the diffusion term of line 121 for a step of the object to new_time
Diffusion(self, new_time) ==
    VMulS(VMulS(StandardNormal(self.rng, self.n),
                PySqrt(TimeF(new_time - self.cur_time))), self.vol)

\* st is a BSStateMC on a flat curve; the vector of tw accumulates the
\* diffusion terms of the effective steps of st
InitDrift ==
    /\ kind = "BSStateMC"
    /\ run_data \in FlatDatasets
    /\ rate0 = "nan"
    /\ st = BSStateMC_init(run_data)
    /\ tw = BSStateMC_init(run_data)
    /\ pending = <<>>
    /\ last = Call("A", "init", 0, "", "none")
    /\ req = [t |-> 0, mono |-> TRUE]
    /\ ret = None

AdvanceDrift(new_time) ==
    /\ st' = BSStateMC_advance(st, new_time)
    /\ tw' = IF new_time - st.cur_time >= EPS
             THEN [tw EXCEPT !.x_vec = VAdd(@, Diffusion(st, new_time))]
             ELSE tw
    /\ last' = Call("A", "advance", new_time, "", "none")
    /\ req' = [t |-> new_time, mono |-> req.mono /\ new_time >= req.t]
    /\ ret' = None
    /\ UNCHANGED <<kind, run_data, rate0, pending>>

GetValueDrift(unit) ==
    /\ ret' = BSStateMC_get_value(st, unit)
    /\ last' = Call("A", "get_value", 0, unit, "none")
    /\ UNCHANGED <<kind, run_data, rate0, st, tw, pending, req>>

NextDrift ==
    \/ \E t \in Times : AdvanceDrift(t)
    \/ \E u \in Units : GetValueDrift(u)

SpecDrift == InitDrift /\ [][NextDrift]_vars

\* C28: on a flat forward curve of rate r and with flat volatility, the
\* log-price of every path of a BSStateMC at clock T, less the sum of the
\* diffusion terms of the steps made, is (r - vol^2 / 2) * T, whatever
\* steps led to T; and the variates consumed are PATHS times the number
\* of effective steps.
C28_DriftAdditive ==
    LET r == run_data.ASSETS["SPX"].r1
        vol == run_data.BS.VOL
    IN  /\ \A i \in 1..PATHS :
              FSub(st.x_vec[i], tw.x_vec[i])
                = FMul(FSub(r, FHalf(FMul(vol, vol))), TimeF(st.cur_time))
        /\ st.rng.pos = PATHS * st.asset_fwd.calls

\* the clock reached twice the threshold in two effective steps on a
\* curve of non-zero rate, with a non-zero sum of diffusion terms
C28_Witness ==
    /\ run_data.ASSETS["SPX"].r1 # 0
    /\ st.cur_time = 2 * EPS
    /\ st.asset_fwd.calls = 2
    /\ st.rng.pos = 2 * PATHS
    /\ \E i \in 1..PATHS : tw.x_vec[i] # 0

\* ------------------------------------- Heston steps of a fixed size
\* the size of the steps
StepSize == EPS

InitRecovery ==
    /\ kind = "MyState"
    /\ run_data \in HestonDatasets
    /\ rate0 = "nan"
    /\ st = MyState_init(run_data)
    /\ tw = MyState_init(run_data)
    /\ pending = <<>>
    /\ last = Call("A", "init", 0, "", "none")
    /\ req = [t |-> 0, mono |-> TRUE]
    /\ ret = None

\* steps remain for the driver
StepsLeft == st.cur_time + StepSize <= MaxSteps * StepSize

\* the driver advances by the fixed size; tw is the object before the step
StepHeston ==
    /\ StepsLeft
    /\ LET new_time == st.cur_time + StepSize
           out == MyState_advance_call(st, new_time)
       IN  /\ st' = out.obj
           /\ last' = Call("A", "advance", new_time, "", out.exc)
           /\ req' = [t |-> new_time, mono |-> req.mono]
    /\ tw' = st
    /\ ret' = None
    /\ UNCHANGED <<kind, run_data, rate0, pending>>

GetValueHeston(unit) ==
    /\ ret' = MyState_get_value(st, unit)
    /\ last' = Call("A", "get_value", 0, unit, "none")
    /\ UNCHANGED <<kind, run_data, rate0, st, tw, pending, req>>

NextRecovery ==
    \/ StepHeston
    \/ \E u \in Units : GetValueHeston(u)

\* the driver keeps stepping while steps remain: weak fairness of
\* StepHeston, WF_vars(StepHeston), written out with the enabling
\* condition of StepHeston and with the call that only StepHeston records
DriverKeepsStepping ==
    \/ []<>(~StepsLeft)
    \/ []<><<last'.obj = "A" /\ last'.op = "advance">>_vars

SpecRecovery ==
    InitRecovery /\ [][NextRecovery]_vars /\ DriverKeepsStepping

\* the steps of size dt after which a variance v is non-negative when its
\* path receives the mean reversion only
RECURSIVE StepsToRecover(_, _, _)
StepsToRecover(self, v, dt) ==
    IF v >= 0 THEN 0
    ELSE 1 + StepsToRecover(self, FAdd(v, MeanReversion(self, v, dt)), dt)

\* C29: for a path whose stored variance is negative at the start of an
\* effective Heston advance the floored volatility is 0: the log-price
\* moves by rate * dt whatever the two shocks are, and the variance grows
\* by (theta - v) * kappa * dt, which is positive. With steps of a fixed
\* size a negative variance is non-negative again after finitely many
\* steps (as far as the steps the driver has left allow).
C29_NegativeVarianceRecovers ==
    /\ [][(/\ CallOnA("advance")
           /\ last'.t - st.cur_time >= EPS) =>
             LET dt == last'.t - st.cur_time
                 rate == Rate(st.asset_fwd, last'.t, st.cur_time)
             IN  \A i \in 1..PATHS :
                   st.v_vec[i] < 0 =>
                     /\ VolVec(st.v_vec)[i] = 0
                     /\ st'.x_vec[i]
                          = FAdd(st.x_vec[i], FMul(rate, TimeF(dt)))
                     /\ st'.v_vec[i]
                          = FAdd(st.v_vec[i],
                                 MeanReversion(st, st.v_vec[i], dt))
                     /\ st'.v_vec[i] > st.v_vec[i]]_vars
    /\ \A i \in 1..PATHS :
          (/\ st.v_vec[i] < 0
           /\ st.cur_time
                + StepSize * StepsToRecover(st, st.v_vec[i], StepSize)
                <= MaxSteps * StepSize)
            ~> (st.v_vec[i] >= 0)

\* after some steps a path whose stored variance was negative before the
\* last step is non-negative after it, by the mean reversion alone although
\* both variates of the path were non-zero
C29_Witness ==
    /\ last.obj = "A" /\ last.op = "advance"
    /\ \E i \in 1..PATHS :
          /\ tw.v_vec[i] < 0
          /\ StepsToRecover(tw, tw.v_vec[i], StepSize) = 1
          /\ st.v_vec[i] >= 0
          /\ st.cur_time >= 3 * StepSize
          /\ StandardNormal(tw.rng, 2 * PATHS)[2 * i - 1] # 0
          /\ StandardNormal(tw.rng, 2 * PATHS)[2 * i] # 0

\* ---------------------------------------------------------------- C30
\* the arrays get_value returns after each of two steps of a BSMC object
\* (no array after a step that raised, and none after it)
ValuesAfterSteps(self, t1, t2) ==
    LET one == BSMC_step(self, t1, rate0)
        two == BSMC_step(one.obj, t2, rate0)
    IN  << one.exc,
           IF one.exc = "none"
           THEN BSMC_get_value(one.obj, self.asset) ELSE None,
           IF one.exc = "none" THEN two.exc ELSE "",
           IF one.exc = "none" /\ two.exc = "none"
           THEN BSMC_get_value(two.obj, self.asset) ELSE None >>

\* C30: BSMC.reset() leaves, from every state, the object that reset()
\* leaves on a new BSMC(dataset): clock 0, log-prices 0, a generator of
\* MC.SEED at its start. A second reset changes nothing, and a sequence
\* of steps after a reset (a step to any time, then a step one tick on or
\* one tick back) returns from get_value the arrays the same sequence
\* returns after the first reset.
C30_ResetRestoresInitialized ==
    [][kind = "BSMC" =>
         /\ CallOnA("reset") =>
              /\ st' = BSMC_init(run_data)
              /\ st'.cur_time = 0
              /\ st'.x_vec = NpZeros(run_data.MC.PATHS)
              /\ st'.rng = NewRng(run_data.MC.SEED)
              /\ \A t1 \in Times : \A t2 \in {t1 - 1, t1 + 1} \cap Times :
                    ValuesAfterSteps(BSMC_reset(st), t1, t2)
                      = ValuesAfterSteps(BSMC_init(run_data), t1, t2)
         /\ BSMC_reset(BSMC_reset(st)) = BSMC_reset(st)]_vars

\* reset was called on an object that had stepped, drawn variates and
\* moved its log-prices
C30_Witness ==
    /\ kind = "BSMC"
    /\ pending # <<>>
    /\ last.obj = "A" /\ last.op = "reset"
    /\ tw.cur_time > 0
    /\ tw.rng.pos >= 2 * tw.n
    /\ tw.x_vec # NpZeros(tw.n)
    /\ ~HasNaN(tw.x_vec)
    /\ st.cur_time = 0
    /\ st.rng.pos = 0
    /\ st.x_vec = NpZeros(st.n)

====
